---- MODULE Spec2Model ----
(***************************************************************************)
(* Verification model of vid_player (src/vid_player/src/main.rs): the      *)
(* demux thread, the video and audio decode threads, the bounded channels  *)
(* between them, the audio output callback with its sample queue and the   *)
(* audio clock, and the presentation tick (App::current_frame).            *)
(*                                                                         *)
(* And of todo_cli: the library's TodoList over a TodoStorage              *)
(* (src/todo_cli/src/lib.rs) and the binary's commands                     *)
(* (src/todo_cli/src/main.rs), each invocation one step over the file.     *)
(*                                                                         *)
(* Times are rationals [n, d] (n/d seconds) compared by cross              *)
(* multiplication: pts = native_pts * time_base, time = samples / rate.    *)
(***************************************************************************)
EXTENDS Integers, Sequences, FiniteSets, TLC

\* ---------------------------------------------------------------- bounds
\* Packets of the video stream and of the audio stream in the input files
\* of the single-stream specifications (at most).
MaxVideoPackets == 3
MaxAudioPackets == 3
\* The audio callback stops being scheduled once samples_played reaches this.
MaxClock == 3
\* Frames the video decoder may hold back before it releases the first one.
MaxDelay == 1
\* Sample frames the resampler may keep inside after a call.
MaxHold == 2
\* Channel capacities and look-ahead depth, scaled down from the source's
\* 100 (packet channels), 30 (FRAME_BUFFER_SIZE) and 1000 (audio chunks).
PACKET_CHANNEL_CAP == 1
FRAME_BUFFER_SIZE == 2
AUDIO_CHANNEL_CAP == 1
\* "Buffer 1000 audio frames ahead", scaled down; the source never uses it.
AUDIO_BUFFER_SIZE == 1

\* todo_cli: the width of a task id (u32 in the source), in bits, and the
\* longest task list.
IdWidth == 2
MaxTasks == 3

\* ------------------------------------------------------- session config
\* Stream time bases (Rational num/den) and the negotiated device config.
v_time_base == [num |-> 1, den |-> 2]
a_time_base == [num |-> 1, den |-> 2]
audio_config == [sample_rate |-> 2, channels |-> 2]
NoPts == -1

VARIABLES
    \* main thread
    mpc,            \* position in can_create_surfaces, "running" once it
                    \* has returned, "panicked" if it has not
    host,           \* the machine: output device, its configurations,
                    \* sample format and callback period, and the streams
                    \* the file has
    \* demux thread
    dpc,            \* "unspawned" | "open" | "loop" | "send_v" | "send_a" |
                    \* "eof_v" | "eof_a" | "done" | "stopped" | "panicked"
    input,          \* the input file: packets of each stream (at most),
                    \* whether the video stream changes its picture format
                    \* and whether every packet carries a pts
    nv, na,         \* packets of the video / audio stream read so far
    markers,        \* history: end markers put on each packet channel
    vpkts, apkts,   \* the two packet channels (Option<Packet>)
    \* video decode thread
    vpc,            \* "recv" | "drain" | "send" | "done" | "panicked"
    v_is_eof,
    vdelay,         \* the video decoder's reordering delay (frames)
    vdec,           \* frames inside the video decoder, oldest first
    vpend,          \* the VideoFrame being sent
    vchan,          \* the video-frame channel
    \* presenter (FrameSource::Video)
    frame_source,   \* TRUE while App.frame_source holds the receiver
    frame_buffer,
    current_frame,  \* video_data shown: 0 is the black initial frame
    current_pts,    \* history: pts of the frame whose data is current
    seen,           \* history: frames received from the channel so far
    \* audio decode thread
    apc,            \* "recv" | "drain" | "send" | "flush" | "fsend" | "done"
    a_is_eof,
    adec,           \* frames inside the audio decoder, oldest first
    resampler,      \* samples buffered inside the resampler
    apend,          \* the AudioFrame being sent
    achan,          \* the audio-chunk channel
    \* audio output stream (build_audio_stream)
    audio_stream,   \* TRUE while App.audio_stream holds the callback
    sample_format,  \* "F32" | "I16" | "U16" | "I32"
    sample_queue,
    data,           \* the device buffer as the last callback left it
    received,       \* history: samples taken from the channel, in order
    delivered,      \* history: device values written from queued samples
    underflow_logged, \* stderr: the count in the last callback's "Audio
                    \* underflow" line, 0 if it wrote none
    \* audio clock
    samples_played,
    \* todo_cli
    tasks,          \* TodoList.tasks, or the Vec the binary works on
    storage,        \* the storage (the JSON file): the tasks it holds and
                    \* whether it can be written
    save_called,    \* the last call reached the storage's save
    result,         \* the last call: [op, ret, value]
    stdout          \* what the last call printed

\* todo_cli: the task list, its storage and the outcome of the last call.
tvars == <<tasks, storage, save_called, result, stdout>>
dvars == <<dpc, tvars, input, mpc, host, nv, na, markers>>
vvars == <<vpc, v_is_eof, vdelay, vdec, vpend>>
avars == <<apc, a_is_eof, adec, resampler, apend>>
chans == <<vpkts, apkts, vchan, achan>>
pvars == <<frame_source, frame_buffer, current_frame, current_pts, seen>>
cvars == <<audio_stream, sample_format, sample_queue, data, received,
           delivered, underflow_logged, samples_played>>
vars == <<dvars, vvars, avars, chans, pvars, cvars>>

\* Lengths of the device buffers the audio host hands to the callback: the
\* same at every call on a host with a fixed period, varying on the others.
CallbackLens ==
    IF host.fixed_period
    THEN {2 * audio_config.channels}
    ELSE {audio_config.channels, 2 * audio_config.channels}

\* ------------------------------------------------------------- helpers
Min(a, b) == IF a <= b THEN a ELSE b

\* a <= b for rationals with positive denominators.
Leq(a, b) == a.n * b.d <= b.n * a.d

\* frame.pts().unwrap_or(0) as f64 * f64::from(time_base)
PtsOf(native, tb) ==
    [n |-> (IF native = NoPts THEN 0 ELSE native) * tb.num, d |-> tb.den]

\* AudioClock::time
Time(played) == [n |-> played, d |-> audio_config.sample_rate]

Packet(s, p, k) == [kind |-> "pkt", stream |-> s, pts |-> p, n |-> k]
EofMarker == [kind |-> "eof", stream |-> "-", pts |-> NoPts, n |-> 0]

\* The demux thread has ended (its two packet senders are dropped): after
\* the end markers ("done") or on a failed send ("stopped").
DemuxEnded == dpc \in {"done", "stopped"}

\* The video decode thread has ended, by leaving its loop or by a panic: its
\* packet receiver and its frame sender are dropped.
VideoEnded == vpc \in {"done", "panicked"}

\* ------------------------------------------------------------ demuxer
\* The packet ictx.packets() yields next for a stream: presentation stamps
\* advance with the packet index, or, in a file where not every packet is
\* stamped, the stamp is missing.  Packets of other streams are read and
\* dropped, which changes nothing.
NextPts(count) == IF input.stamped THEN {count} ELSE {count, NoPts}

\* Mutant: a failed send drops the packet and the demuxer goes on reading,
\* so the other stream is served to its end.
DemuxVideoPacket_SkipsDeadStream ==
    /\ dpc = "loop"
    /\ nv < input.video
    /\ IF VideoEnded
       THEN UNCHANGED vpkts
       ELSE /\ Len(vpkts) < PACKET_CHANNEL_CAP
            /\ \E p \in NextPts(nv) :
                 vpkts' = Append(vpkts, Packet("v", p, nv + 1))
    /\ nv' = nv + 1
    /\ UNCHANGED dpc
    /\ UNCHANGED <<tvars, input, mpc, host, na, markers, apkts, vchan, achan, vvars, avars, pvars, cvars>>

\* Loop body, video branch: video_packet_sender.send(Some(packet)) blocks
\* while the channel is full and fails once the video thread has ended.
DemuxVideoPacket ==
    /\ dpc = "loop"
    /\ nv < input.video
    /\ IF VideoEnded
       THEN /\ dpc' = "stopped"
            /\ UNCHANGED <<nv, vpkts>>
       ELSE /\ Len(vpkts) < PACKET_CHANNEL_CAP
            /\ \E p \in NextPts(nv) :
                 vpkts' = Append(vpkts, Packet("v", p, nv + 1))
            /\ nv' = nv + 1
            /\ UNCHANGED dpc
    /\ UNCHANGED <<tvars, input, mpc, host, na, markers, apkts, vchan, achan, vvars, avars, pvars, cvars>>

\* Mutant: a failed packet send falls through to the end markers instead of
\* returning.
DemuxAudioPacket_FallsThrough ==
    /\ dpc = "loop"
    /\ na < input.audio
    /\ IF apc = "done"
       THEN /\ dpc' = "eof_v"
            /\ UNCHANGED <<na, apkts>>
       ELSE /\ Len(apkts) < PACKET_CHANNEL_CAP
            /\ \E p \in NextPts(na) :
                 apkts' = Append(apkts, Packet("a", p, na + 1))
            /\ na' = na + 1
            /\ UNCHANGED dpc
    /\ UNCHANGED <<tvars, input, mpc, host, nv, markers, vpkts, vchan, achan, vvars, avars, pvars, cvars>>

\* Loop body, audio branch: audio_packet_sender.send(Some(packet)).
DemuxAudioPacket ==
    /\ dpc = "loop"
    /\ na < input.audio
    /\ IF apc = "done"
       THEN /\ dpc' = "stopped"
            /\ UNCHANGED <<na, apkts>>
       ELSE /\ Len(apkts) < PACKET_CHANNEL_CAP
            /\ \E p \in NextPts(na) :
                 apkts' = Append(apkts, Packet("a", p, na + 1))
            /\ na' = na + 1
            /\ UNCHANGED dpc
    /\ UNCHANGED <<tvars, input, mpc, host, nv, markers, vpkts, vchan, achan, vvars, avars, pvars, cvars>>

\* The demux loop in two steps, the packet read and its send, so that a
\* demuxer waiting on a full channel is held to the packet it has read.
\* ictx.packets() yields a packet of the video or of the audio stream.
DemuxReadPacket ==
    /\ dpc = "loop"
    /\ \/ nv < input.video /\ dpc' = "send_v"
       \/ na < input.audio /\ dpc' = "send_a"
    /\ UNCHANGED <<tvars, input, mpc, host, nv, na, markers, chans, vvars, avars, pvars, cvars>>

\* video_packet_sender.send(Some(packet)) for the packet read.
DemuxSendVideoPacket ==
    /\ dpc = "send_v"
    /\ IF VideoEnded
       THEN /\ dpc' = "stopped"
            /\ UNCHANGED <<nv, vpkts>>
       ELSE /\ Len(vpkts) < PACKET_CHANNEL_CAP
            /\ \E p \in NextPts(nv) :
                 vpkts' = Append(vpkts, Packet("v", p, nv + 1))
            /\ nv' = nv + 1
            /\ dpc' = "loop"
    /\ UNCHANGED <<tvars, input, mpc, host, na, markers, apkts, vchan, achan, vvars, avars, pvars, cvars>>

\* audio_packet_sender.send(Some(packet)) for the packet read.
DemuxSendAudioPacket ==
    /\ dpc = "send_a"
    /\ IF apc = "done"
       THEN /\ dpc' = "stopped"
            /\ UNCHANGED <<na, apkts>>
       ELSE /\ Len(apkts) < PACKET_CHANNEL_CAP
            /\ \E p \in NextPts(na) :
                 apkts' = Append(apkts, Packet("a", p, na + 1))
            /\ na' = na + 1
            /\ dpc' = "loop"
    /\ UNCHANGED <<tvars, input, mpc, host, nv, markers, vpkts, vchan, achan, vvars, avars, pvars, cvars>>

\* End of input: the for loop over ictx.packets() ends.
DemuxEndOfInput ==
    /\ dpc = "loop"
    /\ dpc' = "eof_v"
    /\ UNCHANGED <<tvars, input, mpc, host, nv, na, markers, chans, vvars, avars, pvars, cvars>>

\* Mutant: the demuxer, waiting to send the video marker on a full channel,
\* is not woken when the receiver is dropped.
DemuxSendVideoEof_NotWoken ==
    /\ dpc = "eof_v"
    /\ Len(vpkts) < PACKET_CHANNEL_CAP
    /\ IF VideoEnded
       THEN UNCHANGED <<vpkts, markers>>
       ELSE /\ vpkts' = Append(vpkts, EofMarker)
            /\ markers' = [markers EXCEPT !.video = @ + 1]
    /\ dpc' = "eof_a"
    /\ UNCHANGED <<tvars, input, mpc, host, nv, na, apkts, vchan, achan, vvars, avars, pvars, cvars>>

\* let _ = video_packet_sender.send(None);
DemuxSendVideoEof ==
    /\ dpc = "eof_v"
    /\ IF VideoEnded
       THEN UNCHANGED <<vpkts, markers>>
       ELSE /\ Len(vpkts) < PACKET_CHANNEL_CAP
            /\ vpkts' = Append(vpkts, EofMarker)
            /\ markers' = [markers EXCEPT !.video = @ + 1]
    /\ dpc' = "eof_a"
    /\ UNCHANGED <<tvars, input, mpc, host, nv, na, apkts, vchan, achan, vvars, avars, pvars, cvars>>

\* Mutant: the thread ends without sending the audio end marker.
DemuxSendAudioEof_Skipped ==
    /\ dpc = "eof_a"
    /\ dpc' = "done"
    /\ UNCHANGED <<tvars, input, mpc, host, nv, na, markers, chans, vvars, avars, pvars, cvars>>

\* let _ = audio_packet_sender.send(None); then the thread ends.
DemuxSendAudioEof ==
    /\ dpc = "eof_a"
    /\ IF apc = "done"
       THEN UNCHANGED <<apkts, markers>>
       ELSE /\ Len(apkts) < PACKET_CHANNEL_CAP
            /\ apkts' = Append(apkts, EofMarker)
            /\ markers' = [markers EXCEPT !.audio = @ + 1]
    /\ dpc' = "done"
    /\ UNCHANGED <<tvars, input, mpc, host, nv, na, vpkts, vchan, achan, vvars, avars, pvars, cvars>>

\* ------------------------------------------------- video decode thread
\* Mutant: a packet the decoder rejects ends the thread.
VideoRecvPacket_ErrorFatal ==
    /\ vpc = "recv"
    /\ vpkts # <<>>
    /\ Head(vpkts).kind = "pkt"
    /\ vpkts' = Tail(vpkts)
    /\ \E ok \in BOOLEAN :
         /\ vdec' = IF ok THEN Append(vdec, Head(vpkts)) ELSE vdec
         /\ vpc' = IF ok THEN "drain" ELSE "done"
    /\ UNCHANGED <<v_is_eof, vdelay, vpend, apkts, vchan, achan, dvars,
                   avars, pvars, cvars>>

\* video_packet_receiver.recv() yields Some(packet): v_decoder.send_packet,
\* whose error is ignored (the packet then leaves no frame).
VideoRecvPacket ==
    /\ vpc = "recv"
    /\ vpkts # <<>>
    /\ Head(vpkts).kind = "pkt"
    /\ vpkts' = Tail(vpkts)
    /\ \E ok \in BOOLEAN :
         vdec' = IF ok THEN Append(vdec, Head(vpkts)) ELSE vdec
    /\ vpc' = "drain"
    /\ UNCHANGED <<v_is_eof, vdelay, vpend, apkts, vchan, achan, dvars,
                   avars, pvars, cvars>>

\* recv() yields Some(None), or fails because the demux thread has ended
\* and the channel is empty: v_decoder.send_eof, is_eof.
VideoRecvEof ==
    /\ vpc = "recv"
    /\ \/ /\ vpkts # <<>>
          /\ Head(vpkts).kind = "eof"
          /\ vpkts' = Tail(vpkts)
       \/ /\ vpkts = <<>>
          /\ DemuxEnded
          /\ UNCHANGED vpkts
    /\ v_is_eof' = TRUE
    /\ vpc' = "drain"
    /\ UNCHANGED <<vdelay, vdec, vpend, apkts, vchan, achan, dvars,
                   avars, pvars, cvars>>

\* Mutant: send_eof releases nothing, the frames held back stay inside.
VideoFrameReady_NoFlush == Len(vdec) > vdelay

\* v_decoder.receive_frame is Ok: the decoder releases its oldest frame once
\* it holds more than its delay, or after send_eof.
VideoFrameReady == vdec # <<>> /\ (v_is_eof \/ Len(vdec) > vdelay)

\* The frame's pts as the thread computes it.
VideoPts(native) == PtsOf(native, v_time_base)

\* The VideoFrame built from a decoded frame; converted tells whether
\* video_data holds the frame's picture, that is whether scaler.run filled
\* rgb_frame.
VideoFrame(f, scaled) ==
    [pts |-> VideoPts(f.pts), video_data |-> f.n, converted |-> scaled]

\* scaler.run fails when a frame's format or size is not the one the scaler
\* was built for, which takes a stream that changes them on the way.
\* What the build can do when scaler.run fails, its result being dropped by
\* .ok(): video_frame_to_rgba_packed reads rgb_frame as it was left,
\* whatever it holds ("published"), or panics on a frame that was never
\* allocated ("panic").
ScalerFailureOutcomes == {"published", "panic"}

\* Body of the receive_frame loop up to the send: scaler.run(..).ok(), the
\* pts, video_frame_to_rgba_packed.
VideoDecodeFrame ==
    /\ vpc = "drain"
    /\ VideoFrameReady
    /\ vdec' = Tail(vdec)
    /\ \/ /\ vpend' = VideoFrame(Head(vdec), TRUE)
          /\ vpc' = "send"
       \/ /\ input.reformat
          /\ \E outcome \in ScalerFailureOutcomes :
            IF outcome = "published"
            THEN /\ vpend' = VideoFrame(Head(vdec), FALSE)
                 /\ vpc' = "send"
            ELSE /\ vpc' = "panicked"
                 /\ UNCHANGED vpend
    /\ UNCHANGED <<v_is_eof, vdelay, chans, dvars, avars, pvars, cvars>>

\* Mutant: the send never blocks (an unbounded channel).
VideoSend_Unbounded ==
    /\ vpc = "send"
    /\ IF frame_source
       THEN /\ vchan' = Append(vchan, vpend)
            /\ vpc' = "drain"
       ELSE /\ vpc' = "done"
            /\ UNCHANGED vchan
    /\ UNCHANGED <<v_is_eof, vdelay, vdec, vpend, vpkts, apkts, achan,
                   dvars, avars, pvars, cvars>>

\* Mutant: the channel takes one frame more than its capacity.
VideoSend_Overfills ==
    /\ vpc = "send"
    /\ IF frame_source
       THEN /\ Len(vchan) <= FRAME_BUFFER_SIZE
            /\ vchan' = Append(vchan, vpend)
            /\ vpc' = "drain"
       ELSE /\ vpc' = "done"
            /\ UNCHANGED vchan
    /\ UNCHANGED <<v_is_eof, vdelay, vdec, vpend, vpkts, apkts, achan,
                   dvars, avars, pvars, cvars>>

\* v_sender_clone.send(VideoFrame { pts, video_data }): blocks while the
\* channel is full, fails (return) once the receiver is dropped.
VideoSend ==
    /\ vpc = "send"
    /\ IF frame_source
       THEN /\ Len(vchan) < FRAME_BUFFER_SIZE
            /\ vchan' = Append(vchan, vpend)
            /\ vpc' = "drain"
       ELSE /\ vpc' = "done"
            /\ UNCHANGED vchan
    /\ UNCHANGED <<v_is_eof, vdelay, vdec, vpend, vpkts, apkts, achan,
                   dvars, avars, pvars, cvars>>

\* Mutant: the worker does not leave its loop on is_eof.
VideoDrained_NoBreak ==
    /\ vpc = "drain"
    /\ ~VideoFrameReady
    /\ vpc' = "recv"
    /\ UNCHANGED <<v_is_eof, vdelay, vdec, vpend, chans, dvars, avars,
                   pvars, cvars>>

\* receive_frame is Err: leave the inner loop; break on is_eof.
VideoDrained ==
    /\ vpc = "drain"
    /\ ~VideoFrameReady
    /\ vpc' = IF v_is_eof THEN "done" ELSE "recv"
    /\ UNCHANGED <<v_is_eof, vdelay, vdec, vpend, chans, dvars, avars,
                   pvars, cvars>>

\* ------------------------------------------------------------ presenter
\* Refill: try_recv while frame_buffer.len() < FRAME_BUFFER_SIZE.
RefillCount(buf, chan) == Min(FRAME_BUFFER_SIZE - Len(buf), Len(chan))

\* Mutant: the comparison the wrong way round.
Due_Reversed(frame, audio_time) == Leq(audio_time, frame.pts)

\* The test of the selection loop: front.pts <= audio_time.
Due(frame, audio_time) == Leq(frame.pts, audio_time)

\* Frames the selection loop pops: the leading frames that are due.
RECURSIVE PopCount(_, _)
PopCount(buf, audio_time) ==
    IF buf # <<>> /\ Due(Head(buf), audio_time)
    THEN 1 + PopCount(Tail(buf), audio_time)
    ELSE 0

\* Mutant: the refill takes a frame although the look-ahead queue is full,
\* in place of the frame queued there.
Tick_RefillReplaces ==
    /\ frame_source
    /\ LET k == Min(FRAME_BUFFER_SIZE, Len(vchan))
           kept == SubSeq(frame_buffer, 1,
                          Min(Len(frame_buffer), FRAME_BUFFER_SIZE - k))
           buf == kept \o SubSeq(vchan, 1, k)
           audio_time == Time(samples_played)
           m == PopCount(buf, audio_time)
       IN /\ vchan' = SubSeq(vchan, k + 1, Len(vchan))
          /\ frame_buffer' = SubSeq(buf, m + 1, Len(buf))
          /\ seen' = seen \cup {vchan[i] : i \in 1..k}
          /\ current_frame' = IF m > 0 THEN buf[m].video_data ELSE current_frame
          /\ current_pts' = IF m > 0 THEN buf[m].pts ELSE current_pts
    /\ UNCHANGED <<frame_source, vpkts, apkts, achan, dvars, vvars, avars,
                   cvars>>

\* Mutant: the refill uses recv, which waits while the channel is empty and
\* its sender lives.
Tick_BlockingRecv ==
    /\ frame_source
    /\ (Len(frame_buffer) < FRAME_BUFFER_SIZE /\ ~VideoEnded) => vchan # <<>>
    /\ LET k == RefillCount(frame_buffer, vchan)
           buf == frame_buffer \o SubSeq(vchan, 1, k)
           audio_time == Time(samples_played)
           m == PopCount(buf, audio_time)
       IN /\ vchan' = SubSeq(vchan, k + 1, Len(vchan))
          /\ frame_buffer' = SubSeq(buf, m + 1, Len(buf))
          /\ seen' = seen \cup {vchan[i] : i \in 1..k}
          /\ current_frame' = IF m > 0 THEN buf[m].video_data ELSE current_frame
          /\ current_pts' = IF m > 0 THEN buf[m].pts ELSE current_pts
    /\ UNCHANGED <<frame_source, vpkts, apkts, achan, dvars, vvars, avars,
                   cvars>>

\* Mutant: a tick that finds no frame due shows the placeholder again.
Tick_ClearsWhenIdle ==
    /\ frame_source
    /\ LET k == RefillCount(frame_buffer, vchan)
           buf == frame_buffer \o SubSeq(vchan, 1, k)
           audio_time == Time(samples_played)
           m == PopCount(buf, audio_time)
       IN /\ vchan' = SubSeq(vchan, k + 1, Len(vchan))
          /\ frame_buffer' = SubSeq(buf, m + 1, Len(buf))
          /\ seen' = seen \cup {vchan[i] : i \in 1..k}
          /\ current_frame' = IF m > 0 THEN buf[m].video_data ELSE 0
          /\ current_pts' = IF m > 0 THEN buf[m].pts ELSE current_pts
    /\ UNCHANGED <<frame_source, vpkts, apkts, achan, dvars, vvars, avars,
                   cvars>>

\* Mutant: the refill takes every frame the channel holds, whatever the
\* look-ahead queue already holds.
Tick_RefillAll ==
    /\ frame_source
    /\ LET k == Len(vchan)
           buf == frame_buffer \o SubSeq(vchan, 1, k)
           audio_time == Time(samples_played)
           m == PopCount(buf, audio_time)
       IN /\ vchan' = SubSeq(vchan, k + 1, Len(vchan))
          /\ frame_buffer' = SubSeq(buf, m + 1, Len(buf))
          /\ seen' = seen \cup {vchan[i] : i \in 1..k}
          /\ current_frame' = IF m > 0 THEN buf[m].video_data ELSE current_frame
          /\ current_pts' = IF m > 0 THEN buf[m].pts ELSE current_pts
    /\ UNCHANGED <<frame_source, vpkts, apkts, achan, dvars, vvars, avars,
                   cvars>>

\* Mutant: the selection loop pops one frame at most.
Tick_PopsOne ==
    /\ frame_source
    /\ LET k == RefillCount(frame_buffer, vchan)
           buf == frame_buffer \o SubSeq(vchan, 1, k)
           audio_time == Time(samples_played)
           m == Min(1, PopCount(buf, audio_time))
       IN /\ vchan' = SubSeq(vchan, k + 1, Len(vchan))
          /\ frame_buffer' = SubSeq(buf, m + 1, Len(buf))
          /\ seen' = seen \cup {vchan[i] : i \in 1..k}
          /\ current_frame' = IF m > 0 THEN buf[m].video_data ELSE current_frame
          /\ current_pts' = IF m > 0 THEN buf[m].pts ELSE current_pts
    /\ UNCHANGED <<frame_source, vpkts, apkts, achan, dvars, vvars, avars,
                   cvars>>

\* App::current_frame on FrameSource::Video, called from RedrawRequested.
Tick ==
    /\ frame_source
    /\ LET k == RefillCount(frame_buffer, vchan)
           buf == frame_buffer \o SubSeq(vchan, 1, k)
           audio_time == Time(samples_played)
           m == PopCount(buf, audio_time)
       IN /\ vchan' = SubSeq(vchan, k + 1, Len(vchan))
          /\ frame_buffer' = SubSeq(buf, m + 1, Len(buf))
          /\ seen' = seen \cup {vchan[i] : i \in 1..k}
          /\ current_frame' = IF m > 0 THEN buf[m].video_data ELSE current_frame
          /\ current_pts' = IF m > 0 THEN buf[m].pts ELSE current_pts
    /\ UNCHANGED <<frame_source, vpkts, apkts, achan, dvars, vvars, avars,
                   cvars>>

\* The App is dropped (event loop exit): frame_source goes first, and with
\* it the receiver of the video-frame channel.
DropFrameSource ==
    /\ frame_source
    /\ frame_source' = FALSE
    /\ UNCHANGED <<frame_buffer, current_frame, current_pts, seen, chans,
                   dvars, vvars, avars, cvars>>

\* ------------------------------------------------- audio decode thread
\* Sample values are counted in halves of full scale: 2 is 1.0, -3 is -1.5.
\* The k-th sample of the decoded audio stream (a fixed waveform that has
\* values inside and outside [-1.0, 1.0]).
Pcm(k) == ((3 * k + 1) % 7) - 3

\* The interleaved samples of the frame decoded from audio packet n: one
\* sample per channel.
FrameSamples(n) ==
    [i \in 1..audio_config.channels |->
        Pcm((n - 1) * audio_config.channels + i)]

\* audio_packet_receiver.recv() yields Some(packet): a_decoder.send_packet,
\* whose error is ignored.
AudioRecvPacket ==
    /\ apc = "recv"
    /\ apkts # <<>>
    /\ Head(apkts).kind = "pkt"
    /\ apkts' = Tail(apkts)
    /\ \E ok \in BOOLEAN :
         adec' = IF ok THEN Append(adec, Head(apkts)) ELSE adec
    /\ apc' = "drain"
    /\ UNCHANGED <<a_is_eof, resampler, apend, vpkts, vchan, achan, dvars,
                   vvars, pvars, cvars>>

\* Mutant: only the end marker ends the stream; on a disconnected channel
\* the worker goes on waiting.
AudioRecvEof_MarkerOnly ==
    /\ apc = "recv"
    /\ apkts # <<>>
    /\ Head(apkts).kind = "eof"
    /\ apkts' = Tail(apkts)
    /\ a_is_eof' = TRUE
    /\ apc' = "drain"
    /\ UNCHANGED <<adec, resampler, apend, vpkts, vchan, achan, dvars,
                   vvars, pvars, cvars>>

\* recv() yields Some(None) or fails (demux thread ended, channel empty).
AudioRecvEof ==
    /\ apc = "recv"
    /\ \/ /\ apkts # <<>>
          /\ Head(apkts).kind = "eof"
          /\ apkts' = Tail(apkts)
       \/ /\ apkts = <<>>
          /\ DemuxEnded
          /\ UNCHANGED apkts
    /\ a_is_eof' = TRUE
    /\ apc' = "drain"
    /\ UNCHANGED <<adec, resampler, apend, vpkts, vchan, achan, dvars,
                   vvars, pvars, cvars>>

\* a_decoder.receive_frame is Ok: audio decoders release each frame as soon
\* as it is decoded.
AudioFrameReady == adec # <<>>

\* The chunk's pts as the thread computes it from the decoded frame.
AudioPts(native) == PtsOf(native, a_time_base)

\* let pts = 0.0; // Flush pts
FlushPts == [n |-> 0, d |-> 1]

AudioFrame(p, s) == [pts |-> p, samples |-> s]

\* Mutant: a failed resampler.run ends the thread.
AudioDecodeFrame_ErrorFatal ==
    /\ apc = "drain"
    /\ AudioFrameReady
    /\ adec' = Tail(adec)
    /\ \/ /\ apc' = "done"
          /\ UNCHANGED <<resampler, apend>>
       \/ LET avail == resampler \o FrameSamples(Head(adec).n)
              ch == audio_config.channels
          IN \E hold \in 0..Min(MaxHold, Len(avail) \div ch) :
               /\ resampler' = SubSeq(avail, Len(avail) - hold * ch + 1,
                                      Len(avail))
               /\ apend' = AudioFrame(AudioPts(Head(adec).pts),
                                      SubSeq(avail, 1, Len(avail) - hold * ch))
               /\ apc' = "send"
    /\ UNCHANGED <<a_is_eof, chans, dvars, vvars, pvars, cvars>>

\* Body of the receive_frame loop up to the send: resampler.run either
\* fails (continue) or returns the samples it has ready and keeps up to
\* MaxHold sample frames inside.
AudioDecodeFrame ==
    /\ apc = "drain"
    /\ AudioFrameReady
    /\ adec' = Tail(adec)
    /\ \/ UNCHANGED <<apc, resampler, apend>>
       \/ LET avail == resampler \o FrameSamples(Head(adec).n)
              ch == audio_config.channels
          IN \E hold \in 0..Min(MaxHold, Len(avail) \div ch) :
               /\ resampler' = SubSeq(avail, Len(avail) - hold * ch + 1,
                                      Len(avail))
               /\ apend' = AudioFrame(AudioPts(Head(adec).pts),
                                      SubSeq(avail, 1, Len(avail) - hold * ch))
               /\ apc' = "send"
    /\ UNCHANGED <<a_is_eof, chans, dvars, vvars, pvars, cvars>>

\* Mutant: a failed send is ignored and the worker goes on decoding.
AudioSend_Continues ==
    /\ apc = "send"
    /\ IF audio_stream
       THEN /\ Len(achan) < AUDIO_CHANNEL_CAP
            /\ achan' = Append(achan, apend)
       ELSE UNCHANGED achan
    /\ apc' = "drain"
    /\ UNCHANGED <<a_is_eof, adec, resampler, apend, vpkts, apkts, vchan,
                   dvars, vvars, pvars, cvars>>

\* a_sender_clone.send(AudioFrame { pts, samples }) in the decode loop.
AudioSend ==
    /\ apc = "send"
    /\ IF audio_stream
       THEN /\ Len(achan) < AUDIO_CHANNEL_CAP
            /\ achan' = Append(achan, apend)
            /\ apc' = "drain"
       ELSE /\ apc' = "done"
            /\ UNCHANGED achan
    /\ UNCHANGED <<a_is_eof, adec, resampler, apend, vpkts, apkts, vchan,
                   dvars, vvars, pvars, cvars>>

\* receive_frame is Err: on is_eof go on to drain the resampler.
AudioDrained ==
    /\ apc = "drain"
    /\ ~AudioFrameReady
    /\ apc' = IF a_is_eof THEN "flush" ELSE "recv"
    /\ UNCHANGED <<a_is_eof, adec, resampler, apend, chans, dvars, vvars,
                   pvars, cvars>>

\* One pass of the drain loop: resampler.run(empty, out).  An error, or
\* Ok(None) (no delay left after this call), breaks before out is used;
\* Ok(Some(delay)) goes on to send out as a chunk.
AudioFlush ==
    /\ apc = "flush"
    /\ \/ /\ apc' = "done"
          /\ UNCHANGED <<resampler, apend>>
       \/ LET ch == audio_config.channels
              frames == Len(resampler) \div ch
          IN \E e \in (IF frames = 0 THEN {0} ELSE 1..frames) :
               /\ resampler' = SubSeq(resampler, e * ch + 1, Len(resampler))
               /\ IF e = frames
                  THEN /\ apc' = "done"
                       /\ UNCHANGED apend
                  ELSE /\ apc' = "fsend"
                       /\ apend' = AudioFrame(FlushPts,
                                              SubSeq(resampler, 1, e * ch))
    /\ UNCHANGED <<a_is_eof, adec, chans, dvars, vvars, pvars, cvars>>

\* a_sender_clone.send(AudioFrame { pts, samples }) in the drain loop.
AudioFlushSend ==
    /\ apc = "fsend"
    /\ IF audio_stream
       THEN /\ Len(achan) < AUDIO_CHANNEL_CAP
            /\ achan' = Append(achan, apend)
            /\ apc' = "flush"
       ELSE /\ apc' = "done"
            /\ UNCHANGED achan
    /\ UNCHANGED <<a_is_eof, adec, resampler, apend, vpkts, apkts, vchan,
                   dvars, vvars, pvars, cvars>>

\* --------------------------------------------------------- audio output
\* while let Ok(chunk) = receiver.try_recv() { sample_queue.extend(..) }
RECURSIVE Flatten(_)
Flatten(chunks) ==
    IF chunks = <<>> THEN <<>>
    ELSE Head(chunks).samples \o Flatten(Tail(chunks))

\* Mutant: the chunk goes to the front of the queue.
Extend_Front(queue, samples) == samples \o queue

Extend(queue, samples) == queue \o samples

Intake(queue, chunks) == Extend(queue, Flatten(chunks))

\* f.clamp(-1.0, 1.0)
Clamp(f) == IF f < -2 THEN -2 ELSE IF f > 2 THEN 2 ELSE f

\* Rust's float-to-integer `as`: toward zero (saturation is in ToI32).
Trunc(num, den) == IF num >= 0 THEN num \div den ELSE -((-num) \div den)

I16Max == 32767
U16Max == 65535
I32Max == 2147483647

\* (f * i16::MAX as f32) as i16
ToI16(f) == Trunc(Clamp(f) * I16Max, 2)

\* (((f + 1.0) * 0.5) * u16::MAX as f32) as u16
ToU16(f) == Trunc((Clamp(f) + 2) * U16Max, 4)

\* (f_clamped * i32::MAX as f32) as i32: i32::MAX as f32 is 2^31, and the
\* cast saturates at i32::MAX.
ToI32(f) == IF Clamp(f) = 2 THEN I32Max ELSE Clamp(f) * 1073741824

\* What each callback stores for a queued sample ...
Encode(fmt, f) ==
    CASE fmt = "F32" -> f
      [] fmt = "I16" -> ToI16(f)
      [] fmt = "U16" -> ToU16(f)
      [] fmt = "I32" -> ToI32(f)

\* Mutant: a missing sample is stored as 0 in every format.
Underflow_Zero(fmt) == 0

\* ... and for a missing one: *s = 0.0, unwrap_or(0.0) encoded, *s = 0.
Underflow(fmt) ==
    CASE fmt = "F32" -> 0
      [] fmt = "I16" -> ToI16(0)
      [] fmt = "U16" -> ToU16(0)
      [] fmt = "I32" -> 0

\* for s in data.iter_mut() { ... sample_queue.pop_front() ... }
FillData(fmt, queue, len) ==
    [i \in 1..len |->
        IF i <= Len(queue) THEN Encode(fmt, queue[i]) ELSE Underflow(fmt)]

\* underflow_count, which only the F32 and I32 callbacks keep; the I16 and
\* U16 callbacks replace a missing sample by unwrap_or(0.0) and count nothing.
UnderflowCount(fmt, queue, len) ==
    IF fmt \in {"F32", "I32"} THEN len - Min(len, Len(queue)) ELSE 0

\* Mutant: the clock counts samples, not frames.
FramesWritten_Samples(len) == len

\* (data.len() as u64) / channels_u64
FramesWritten(len) == len \div audio_config.channels

\* Mutant: the clock advances by the frames of decoded audio written, the
\* silence of an underrun not counted.
AudioCallback_CountsDecodedOnly ==
    /\ audio_stream
    /\ samples_played < MaxClock
    /\ \E len \in CallbackLens :
         LET queue == Intake(sample_queue, achan)
             k == Min(len, Len(queue))
         IN /\ achan' = <<>>
            /\ received' = received \o Flatten(achan)
            /\ data' = FillData(sample_format, queue, len)
            /\ delivered' = delivered \o
                    SubSeq(FillData(sample_format, queue, len), 1, k)
            /\ sample_queue' = SubSeq(queue, k + 1, Len(queue))
            /\ underflow_logged' = UnderflowCount(sample_format, queue, len)
            /\ samples_played' = samples_played + FramesWritten(k)
    /\ UNCHANGED <<audio_stream, sample_format, vpkts, apkts, vchan, dvars,
                   vvars, avars, pvars>>

\* The output callback of build_audio_stream, for the session's format.
AudioCallback ==
    /\ audio_stream
    /\ samples_played < MaxClock
    /\ \E len \in CallbackLens :
         LET queue == Intake(sample_queue, achan)
             k == Min(len, Len(queue))
         IN /\ achan' = <<>>
            /\ received' = received \o Flatten(achan)
            /\ data' = FillData(sample_format, queue, len)
            /\ delivered' = delivered \o
                    SubSeq(FillData(sample_format, queue, len), 1, k)
            /\ sample_queue' = SubSeq(queue, k + 1, Len(queue))
            /\ underflow_logged' = UnderflowCount(sample_format, queue, len)
            /\ samples_played' = samples_played + FramesWritten(len)
    /\ UNCHANGED <<audio_stream, sample_format, vpkts, apkts, vchan, dvars,
                   vvars, avars, pvars>>

\* The callback once the model's clock has reached its bound: it runs as
\* before, and the clock, past every pts of the input by then, is held.
AudioCallbackCapped ==
    /\ audio_stream
    /\ samples_played >= MaxClock
    /\ \E len \in CallbackLens :
         LET queue == Intake(sample_queue, achan)
             k == Min(len, Len(queue))
         IN /\ achan' = <<>>
            /\ received' = received \o Flatten(achan)
            /\ data' = FillData(sample_format, queue, len)
            /\ delivered' = delivered \o
                    SubSeq(FillData(sample_format, queue, len), 1, k)
            /\ sample_queue' = SubSeq(queue, k + 1, Len(queue))
            /\ underflow_logged' = UnderflowCount(sample_format, queue, len)
    /\ UNCHANGED <<audio_stream, sample_format, samples_played, vpkts, apkts,
                   vchan, dvars, vvars, avars, pvars>>

\* The App is dropped: audio_stream goes after frame_source, and with it
\* the callback and the receiver of the audio-chunk channel.
DropAudioStream ==
    /\ ~frame_source
    /\ audio_stream
    /\ audio_stream' = FALSE
    /\ UNCHANGED <<sample_format, sample_queue, data, received, delivered,
                   underflow_logged, samples_played, chans, dvars, vvars,
                   avars, pvars>>

\* ------------------------------------------------------ frame buffers
\* self.video_width, self.video_height: the size of the decoded picture.
video_size == [width |-> 2, height |-> 2]

\* rgb_frame.stride(0): a row of the scaler's output plane, padding included.
Stride == 4 * video_size.width + 4

\* rgb_frame.data(0) for the n-th picture: no byte of it is 0.
RgbPlane(n) == [j \in 1..(Stride * video_size.height) |-> ((n + j) % 255) + 1]

\* Mutant: the rows are copied with their padding.
video_frame_to_rgba_packed_Padded(src, stride, width, height) ==
    [i \in 1..(stride * height) |-> src[i]]

\* video_frame_to_rgba_packed: row y of the output is the first row_bytes
\* bytes of row y of the plane.
video_frame_to_rgba_packed(src, stride, width, height) ==
    LET row_bytes == width * 4
    IN [i \in 1..(row_bytes * height) |->
           src[((i - 1) \div row_bytes) * stride + ((i - 1) % row_bytes) + 1]]

\* vec![0; (self.video_width * self.video_height * 4) as usize]
BlackFrame == [i \in 1..(video_size.width * video_size.height * 4) |-> 0]

\* The bytes of FrameSource::Video.current_frame, which the tick returns:
\* the initial buffer, or the video_data of the frame made current.
CurrentFrameBytes ==
    IF current_frame = 0
    THEN BlackFrame
    ELSE video_frame_to_rgba_packed(RgbPlane(current_frame), Stride,
                                    video_size.width, video_size.height)

\* ----------------------------------------------------------------- spec
SampleFormats == {"F32", "I16", "U16", "I32"}

\* No todo list is loaded.
NoResult == [op |-> "none", ret |-> "none", value |-> 0]

NoTodo ==
    /\ tasks = <<>>
    /\ storage = [tasks |-> <<>>, writable |-> TRUE]
    /\ save_called = FALSE
    /\ result = NoResult
    /\ stdout = <<>>

\* The state once can_create_surfaces has returned, for an input file, the
\* device's sample format and the video decoder's delay.
StartOn(file, formats, delays, fixed) ==
    /\ NoTodo
    /\ input = file
    /\ mpc = "running"
    /\ \E fmt \in formats :
         /\ host = [device |-> TRUE, config |-> TRUE, format |-> fmt,
                    fixed_period |-> fixed,
                    video_stream |-> TRUE, audio_stream |-> TRUE]
         /\ sample_format = fmt
    /\ dpc = "loop" /\ nv = 0 /\ na = 0
    /\ markers = [video |-> 0, audio |-> 0]
    /\ vpkts = <<>> /\ apkts = <<>> /\ vchan = <<>> /\ achan = <<>>
    /\ vpc = "recv" /\ v_is_eof = FALSE
    /\ vdelay \in delays
    /\ vdec = <<>>
    /\ vpend = [pts |-> [n |-> 0, d |-> 1], video_data |-> 0, converted |-> TRUE]
    /\ apc = "recv" /\ a_is_eof = FALSE
    /\ adec = <<>>
    /\ resampler = <<>>
    /\ apend = AudioFrame(FlushPts, <<>>)
    /\ frame_source = TRUE
    /\ frame_buffer = <<>>
    /\ current_frame = 0
    /\ current_pts = [n |-> 0, d |-> 1]
    /\ seen = {}
    /\ audio_stream = TRUE
    /\ sample_queue = <<>>
    /\ data = <<>>
    /\ underflow_logged = 0
    /\ received = <<>>
    /\ delivered = <<>>
    /\ samples_played = 0

\* The same on a host whose callback period varies.
Start(file, formats, delays) == StartOn(file, formats, delays, FALSE)

Demux ==
    \/ DemuxEndOfInput
    \/ DemuxSendVideoEof
    \/ DemuxSendAudioEof

VideoThread ==
    \/ VideoRecvPacket
    \/ VideoDecodeFrame
    \/ VideoSend

AudioThread ==
    \/ AudioRecvPacket
    \/ AudioDecodeFrame
    \/ AudioSend
    \/ AudioFlushSend

App ==
    \/ Tick
    \/ DropFrameSource
    \/ AudioCallback
    \/ DropAudioStream

\* A file with packets of both streams: one video packet, two audio packets.
Init ==
    Start([video |-> 1, audio |-> 2, reformat |-> FALSE,
           stamped |-> FALSE], {"F32"}, 0..MaxDelay)

Next ==
    \/ DemuxVideoPacket
    \/ DemuxAudioPacket
    \/ Demux
    \/ VideoThread
    \/ VideoRecvEof
    \/ VideoDrained
    \/ AudioThread
    \/ AudioRecvEof
    \/ AudioDrained
    \/ AudioFlush
    \/ App

Spec == Init /\ [][Next]_vars

\* A file with two packets of each stream, every packet stamped, decoded
\* without reordering delay: either worker can end while the demuxer still
\* has packets of its stream.
InitCoupled ==
    Start([video |-> 2, audio |-> 2, reformat |-> FALSE, stamped |-> TRUE],
          {"F32"}, {0})

SpecCoupled == InitCoupled /\ [][Next]_vars

\* The same file under fair scheduling: every thread that can take a step
\* eventually takes one, the window keeps being redrawn while the frame
\* source is installed and the device keeps calling the callback while the
\* stream lives.
DemuxStep ==
    \/ DemuxReadPacket
    \/ DemuxSendVideoPacket
    \/ DemuxSendAudioPacket
    \/ Demux

VideoStep == VideoThread \/ VideoRecvEof \/ VideoDrained

AudioStep == AudioThread \/ AudioRecvEof \/ AudioDrained \/ AudioFlush

NextFair ==
    \/ DemuxStep
    \/ VideoStep
    \/ AudioStep
    \/ Tick
    \/ AudioCallback
    \/ AudioCallbackCapped

Fairness ==
    /\ WF_vars(DemuxStep)
    /\ WF_vars(VideoStep)
    /\ WF_vars(AudioStep)
    /\ WF_vars(Tick)
    /\ WF_vars(AudioCallback \/ AudioCallbackCapped)

\* A file with two packets of each stream, every packet stamped, played on
\* a host with a fixed callback period.
InitFair ==
    StartOn([video |-> 2, audio |-> 2, reformat |-> FALSE, stamped |-> TRUE],
            {"F32"}, {0}, TRUE)

SpecFair == InitFair /\ [][NextFair]_vars /\ Fairness

\* The same under fair scheduling with a frame source that may be dropped
\* while the audio stream stays.
NextShutdown ==
    \/ NextFair
    \/ DropFrameSource

FairnessShutdown ==
    /\ WF_vars(DemuxStep)
    /\ WF_vars(VideoStep)
    /\ WF_vars(AudioStep)
    /\ WF_vars(AudioCallback \/ AudioCallbackCapped)

SpecShutdown == InitFair /\ [][NextShutdown]_vars /\ FairnessShutdown

\* A file whose audio stream holds no packet: the video path under the clock.
InitVideo ==
    Start([video |-> MaxVideoPackets, audio |-> 0, reformat |-> FALSE,
           stamped |-> FALSE],
          {"F32"}, 0..MaxDelay)

NextVideo ==
    \/ DemuxVideoPacket
    \/ Demux
    \/ VideoThread
    \/ VideoRecvEof
    \/ VideoDrained
    \/ AudioRecvEof
    \/ AudioDrained
    \/ AudioFlush
    \/ App

SpecVideo == InitVideo /\ [][NextVideo]_vars

\* A longer video stream, one packet more than the look-ahead queue and the
\* video-frame channel hold together with the frame on display, decoded
\* without reordering delay: the decode worker runs ahead of the presenter.
InitLookAhead ==
    Start([video |-> MaxVideoPackets + 1, audio |-> 0, reformat |-> FALSE,
           stamped |-> FALSE],
          {"F32"}, {0})

SpecLookAhead == InitLookAhead /\ [][NextVideo]_vars

\* A video stream long enough to fill the look-ahead queue and the
\* video-frame channel behind a displayed frame with one more frame waiting
\* to be sent, every packet stamped, decoded without reordering delay.
InitDecodeAhead ==
    Start([video |-> MaxVideoPackets + 3, audio |-> 0, reformat |-> FALSE,
           stamped |-> TRUE], {"F32"}, {0})

SpecDecodeAhead == InitDecodeAhead /\ [][NextVideo]_vars

\* The same video path for a file, one video packet shorter, whose video
\* stream changes its picture format: the scaler may fail on a frame.
InitScaler ==
    Start([video |-> MaxVideoPackets - 1, audio |-> 0, reformat |-> TRUE,
           stamped |-> FALSE],
          {"F32"}, 0..MaxDelay)

SpecScaler == InitScaler /\ [][NextVideo]_vars

\* A file whose video stream holds no packet: the audio path to the device.
InitAudio ==
    Start([video |-> 0, audio |-> MaxAudioPackets, reformat |-> FALSE,
           stamped |-> FALSE],
          {"F32"}, {0})

NextAudio ==
    \/ DemuxAudioPacket
    \/ Demux
    \/ VideoRecvEof
    \/ VideoDrained
    \/ AudioThread
    \/ AudioRecvEof
    \/ AudioDrained
    \/ AudioFlush
    \/ App

SpecAudio == InitAudio /\ [][NextAudio]_vars

\* The same audio path on a device of each supported sample format, for a
\* file with one audio packet fewer.
InitDevice ==
    Start([video |-> 0, audio |-> MaxAudioPackets - 1, reformat |-> FALSE,
           stamped |-> FALSE],
          SampleFormats, {0})

SpecDevice == InitDevice /\ [][NextAudio]_vars

\* ------------------------------------------------------------- startup
\* Sample formats cpal knows and build_audio_stream has no arm for.
OtherFormats == {"F64"}

\* The machines and files can_create_surfaces may meet.
Hosts ==
    [device : BOOLEAN, config : BOOLEAN,
     format : SampleFormats \cup OtherFormats, fixed_period : {FALSE},
     video_stream : BOOLEAN, audio_stream : BOOLEAN]

\* The state when winit calls can_create_surfaces: App::default(), no
\* thread spawned, no channel in use.
BeforeStartup ==
    /\ input = [video |-> 1, audio |-> 1, reformat |-> FALSE,
           stamped |-> FALSE]
    /\ mpc = "get_audio_config"
    /\ dpc = "unspawned" /\ nv = 0 /\ na = 0
    /\ markers = [video |-> 0, audio |-> 0]
    /\ vpkts = <<>> /\ apkts = <<>> /\ vchan = <<>> /\ achan = <<>>
    /\ vpc = "unspawned" /\ v_is_eof = FALSE
    /\ vdelay = 0
    /\ vdec = <<>>
    /\ vpend = [pts |-> [n |-> 0, d |-> 1], video_data |-> 0, converted |-> TRUE]
    /\ apc = "unspawned" /\ a_is_eof = FALSE
    /\ adec = <<>>
    /\ resampler = <<>>
    /\ apend = AudioFrame(FlushPts, <<>>)
    /\ frame_source = FALSE
    /\ frame_buffer = <<>>
    /\ current_frame = 0
    /\ current_pts = [n |-> 0, d |-> 1]
    /\ seen = {}
    /\ audio_stream = FALSE
    /\ sample_format = "none"
    /\ sample_queue = <<>>
    /\ data = <<>>
    /\ underflow_logged = 0
    /\ received = <<>>
    /\ delivered = <<>>
    /\ samples_played = 0

InitStartup ==
    /\ host \in Hosts
    /\ BeforeStartup
    /\ NoTodo

\* Self::get_audio_config(): expect on the default output device, on the
\* query of its configurations and on the chosen configuration.
GetAudioConfig ==
    /\ mpc = "get_audio_config"
    /\ mpc' = IF host.device /\ host.config THEN "open_input" ELSE "panicked"
    /\ UNCHANGED <<dpc, tvars, input, host, nv, na, markers, chans, vvars, avars,
                   pvars, cvars>>

\* format::input(..).expect, best(Video).expect, best(Audio).unwrap: the
\* file is opened for its metadata and both streams are looked up.
OpenInput ==
    /\ mpc = "open_input"
    /\ \E opened \in BOOLEAN :
         mpc' = IF opened /\ host.video_stream /\ host.audio_stream
                THEN "create_window" ELSE "panicked"
    /\ UNCHANGED <<dpc, tvars, input, host, nv, na, markers, chans, vvars, avars,
                   pvars, cvars>>

\* create_window(..).unwrap() and Pixels::new(..).expect.
CreateWindow ==
    /\ mpc = "create_window"
    /\ \E created \in BOOLEAN :
         mpc' = IF created THEN "build_audio_stream" ELSE "panicked"
    /\ UNCHANGED <<dpc, tvars, input, host, nv, na, markers, chans, vvars, avars,
                   pvars, cvars>>

\* Self::build_audio_stream: panic! on a format without an arm, expect on
\* build_output_stream and on play; then self.audio_stream = Some(stream).
BuildAudioStream ==
    /\ mpc = "build_audio_stream"
    /\ \E built \in BOOLEAN :
         IF built /\ host.format \in SampleFormats
         THEN /\ mpc' = "spawn_demux"
              /\ audio_stream' = TRUE
              /\ sample_format' = host.format
         ELSE /\ mpc' = "panicked"
              /\ UNCHANGED <<audio_stream, sample_format>>
    /\ UNCHANGED <<dpc, tvars, input, host, nv, na, markers, chans, vvars, avars,
                   pvars, sample_queue, data, received, delivered,
                   underflow_logged, samples_played>>

\* spawn_demux_decode_thread: the three thread::spawn calls, in order.
SpawnDemux ==
    /\ mpc = "spawn_demux"
    /\ mpc' = "spawn_video"
    /\ dpc' = "open"
    /\ UNCHANGED <<tvars, input, host, nv, na, markers, chans, vvars, avars, pvars,
                   cvars>>

SpawnVideoDecode ==
    /\ mpc = "spawn_video"
    /\ mpc' = "spawn_audio"
    /\ vpc' = "open"
    /\ UNCHANGED <<dpc, tvars, input, host, nv, na, markers, chans, v_is_eof,
                   vdelay, vdec, vpend, avars, pvars, cvars>>

SpawnAudioDecode ==
    /\ mpc = "spawn_audio"
    /\ mpc' = "install"
    /\ apc' = "open"
    /\ UNCHANGED <<dpc, tvars, input, host, nv, na, markers, chans, vvars,
                   a_is_eof, adec, resampler, apend, pvars, cvars>>

\* self.frame_source = Some(FrameSource::Video { .. }), and the window.
InstallFrameSource ==
    /\ mpc = "install"
    /\ mpc' = "running"
    /\ frame_source' = TRUE
    /\ UNCHANGED <<dpc, tvars, input, host, nv, na, markers, chans, vvars, avars,
                   frame_buffer, current_frame, current_pts, seen, cvars>>

\* The demux thread opens the file again and looks both streams up, with
\* expect on each; a panic ends this thread only.
DemuxOpen ==
    /\ dpc = "open"
    /\ \E opened \in BOOLEAN :
         dpc' = IF opened /\ host.video_stream /\ host.audio_stream
                THEN "loop" ELSE "panicked"
    /\ UNCHANGED <<tvars, input, mpc, host, nv, na, markers, chans, vvars, avars,
                   pvars, cvars>>

\* The video decode thread opens the file again, looks the video stream up
\* and builds its decoder and scaler.
VideoOpen ==
    /\ vpc = "open"
    /\ \E opened \in BOOLEAN :
         vpc' = IF opened /\ host.video_stream THEN "recv" ELSE "panicked"
    /\ UNCHANGED <<v_is_eof, vdelay, vdec, vpend, chans, dvars, avars, pvars,
                   cvars>>

\* The audio decode thread opens the file again, looks the audio stream up
\* and builds its decoder and resampler.
AudioOpen ==
    /\ apc = "open"
    /\ \E opened \in BOOLEAN :
         apc' = IF opened /\ host.audio_stream THEN "recv" ELSE "panicked"
    /\ UNCHANGED <<a_is_eof, adec, resampler, apend, chans, dvars, vvars,
                   pvars, cvars>>

CanCreateSurfaces ==
    \/ GetAudioConfig
    \/ OpenInput
    \/ CreateWindow
    \/ BuildAudioStream
    \/ SpawnDemux
    \/ SpawnVideoDecode
    \/ SpawnAudioDecode
    \/ InstallFrameSource

ThreadOpen ==
    \/ DemuxOpen
    \/ VideoOpen
    \/ AudioOpen

NextStartup ==
    \/ CanCreateSurfaces
    \/ ThreadOpen

SpecStartup == InitStartup /\ [][NextStartup]_vars

\* ------------------------------------------------------------ todo_cli
\* u32::MAX at the model's width.
U32Max == 2 ^ IdWidth - 1
TaskIds == 0..U32Max

\* Titles and descriptions given on the command line.
Texts == {[title |-> "b", description |-> "y"]}

\* Task::new
Task(id, title, description) ==
    [id |-> id, title |-> title, description |-> description,
     completed |-> FALSE]

\* tasks.iter().map(|task| task.id)
Ids(ts) == {ts[i].id : i \in 1..Len(ts)}

\* .max().unwrap_or(0)
LargestId(ts) ==
    IF ts = <<>> THEN 0
    ELSE CHOOSE x \in Ids(ts) : \A y \in Ids(ts) : y <= x

\* The builds of `+ 1` on a u32: overflow checks on (it panics at u32::MAX)
\* or off (it wraps).
Builds == {"checked", "wrapping"}

\* Task::find_next_id where it returns: max + 1 in u32 arithmetic.
find_next_id(ts) == (LargestId(ts) + 1) % (U32Max + 1)

\* Task::find_next_id panics instead ("attempt to add with overflow").
FindNextIdPanics(ts, build) == build = "checked" /\ LargestId(ts) = U32Max

\* tasks.iter().position(|t| t.id == id), 0 for None; also the task that
\* iter_mut().find(|task| task.id == id) yields.
Position(ts, id) ==
    IF id \in Ids(ts)
    THEN CHOOSE i \in 1..Len(ts) :
           /\ ts[i].id = id
           /\ \A j \in 1..(i - 1) : ts[j].id # id
    ELSE 0

\* Mutant: every task of the list is marked.
mark_task_completed_All(ts, id) ==
    [i \in 1..Len(ts) |-> [ts[i] EXCEPT !.completed = TRUE]]

\* Task::mark_task_completed on a list that holds the id.
mark_task_completed(ts, id) ==
    [ts EXCEPT ![Position(ts, id)].completed = TRUE]

\* Vec::remove(pos)
RemoveAt(ts, pos) == SubSeq(ts, 1, pos - 1) \o SubSeq(ts, pos + 1, Len(ts))

\* The lines list prints: one per task with its marker, or the notice.
Line(text, status, task) ==
    [text |-> text, status |-> status, id |-> task.id,
     title |-> task.title, description |-> task.description]

Listing(ts) ==
    IF ts = <<>>
    THEN <<Line("No tasks found", "", Task(0, "", ""))>>
    ELSE [i \in 1..Len(ts) |->
             Line("task", IF ts[i].completed THEN "[x]" ELSE "[ ]", ts[i])]

\* The call made last and what it returned: Ok (with the id add returns),
\* Err, or a panic.
Result(op, ret, value) == [op |-> op, ret |-> ret, value |-> value]

\* What a storage may hold when the program starts, and whether its file
\* can be written.
InitialStores ==
    [tasks : {<<>>, <<Task(U32Max - 1, "a", "x")>>},
     writable : BOOLEAN]

\* The player is not running.
NoPlayer ==
    /\ BeforeStartup
    /\ host = [device |-> FALSE, config |-> FALSE, format |-> "F32",
               fixed_period |-> FALSE,
               video_stream |-> FALSE, audio_stream |-> FALSE]

\* TodoList::load(storage) has returned Ok.
InitTodo ==
    /\ NoPlayer
    /\ storage \in InitialStores
    /\ tasks = storage.tasks
    /\ save_called = FALSE
    /\ result = Result("load", "Ok", 0)
    /\ stdout = <<>>

\* self.save(): storage.save(&self.tasks), which fails on a storage that
\* cannot be written.
Save(ts) ==
    /\ save_called' = TRUE
    /\ storage' = IF storage.writable THEN [storage EXCEPT !.tasks = ts]
                  ELSE storage

\* TodoList::add
add(text) ==
    /\ result.ret # "panic"
    /\ Len(tasks) < MaxTasks
    /\ \E build \in Builds :
         IF FindNextIdPanics(tasks, build)
         THEN /\ result' = Result("add", "panic", 0)
              /\ save_called' = FALSE
              /\ UNCHANGED <<tasks, storage>>
         ELSE LET next_id == find_next_id(tasks)
              IN /\ tasks' = Append(tasks, Task(next_id, text.title, text.description))
                 /\ Save(tasks')
                 /\ result' = IF storage.writable
                              THEN Result("add", "Ok", next_id)
                              ELSE Result("add", "Err", 0)
    /\ stdout' = <<>>
    /\ UNCHANGED <<input, mpc, host, dpc, nv, na, markers, vvars, avars,
                   chans, pvars, cvars>>

\* TodoList::list
list ==
    /\ result.ret # "panic"
    /\ stdout' = Listing(tasks)
    /\ result' = Result("list", "Ok", 0)
    /\ save_called' = FALSE
    /\ UNCHANGED <<tasks, storage, input, mpc, host, dpc, nv, na, markers,
                   vvars, avars, chans, pvars, cvars>>

\* Mutant: an unknown id is saved and reported as done.
complete_Lenient(id) ==
    /\ result.ret # "panic"
    /\ tasks' = IF Position(tasks, id) = 0 THEN tasks
                ELSE mark_task_completed(tasks, id)
    /\ Save(tasks')
    /\ result' = Result("complete",
                        IF storage.writable THEN "Ok" ELSE "Err", 0)
    /\ stdout' = <<>>
    /\ UNCHANGED <<input, mpc, host, dpc, nv, na, markers, vvars, avars,
                   chans, pvars, cvars>>

\* TodoList::complete
complete(id) ==
    /\ result.ret # "panic"
    /\ IF Position(tasks, id) = 0
       THEN /\ result' = Result("complete", "Err", 0)
            /\ save_called' = FALSE
            /\ UNCHANGED <<tasks, storage>>
       ELSE /\ tasks' = mark_task_completed(tasks, id)
            /\ Save(tasks')
            /\ result' = Result("complete",
                                IF storage.writable THEN "Ok" ELSE "Err", 0)
    /\ stdout' = <<>>
    /\ UNCHANGED <<input, mpc, host, dpc, nv, na, markers, vvars, avars,
                   chans, pvars, cvars>>

\* Mutant: Vec::swap_remove, the last task takes the place of the removed.
remove_SwapRemove(id) ==
    /\ result.ret # "panic"
    /\ IF Position(tasks, id) = 0
       THEN /\ result' = Result("remove", "Err", 0)
            /\ save_called' = FALSE
            /\ UNCHANGED <<tasks, storage>>
       ELSE /\ tasks' = LET pos == Position(tasks, id)
                            moved == [tasks EXCEPT ![pos] = tasks[Len(tasks)]]
                        IN SubSeq(moved, 1, Len(tasks) - 1)
            /\ Save(tasks')
            /\ result' = Result("remove",
                                IF storage.writable THEN "Ok" ELSE "Err", 0)
    /\ stdout' = <<>>
    /\ UNCHANGED <<input, mpc, host, dpc, nv, na, markers, vvars, avars,
                   chans, pvars, cvars>>

\* TodoList::remove
remove(id) ==
    /\ result.ret # "panic"
    /\ IF Position(tasks, id) = 0
       THEN /\ result' = Result("remove", "Err", 0)
            /\ save_called' = FALSE
            /\ UNCHANGED <<tasks, storage>>
       ELSE /\ tasks' = RemoveAt(tasks, Position(tasks, id))
            /\ Save(tasks')
            /\ result' = Result("remove",
                                IF storage.writable THEN "Ok" ELSE "Err", 0)
    /\ stdout' = <<>>
    /\ UNCHANGED <<input, mpc, host, dpc, nv, na, markers, vvars, avars,
                   chans, pvars, cvars>>

NextTodo ==
    \/ \E text \in Texts : add(text)
    \/ list
    \/ \E id \in TaskIds : complete(id)
    \/ \E id \in TaskIds : remove(id)

SpecTodo == InitTodo /\ [][NextTodo]_vars

\* ------------------------------------------------- todo_cli, the binary
\* What todo.json may hold when the binary is run, and whether it can be
\* written.
InitialFiles ==
    [tasks : {<<>>} \cup {<<[Task(i, "a", "x") EXCEPT !.completed = c]>> :
                            i \in TaskIds, c \in BOOLEAN},
     writable : BOOLEAN]

\* No invocation has been made yet.
InitTodoCli ==
    /\ NoPlayer
    /\ storage \in InitialFiles
    /\ tasks = <<>>
    /\ save_called = FALSE
    /\ result = NoResult
    /\ stdout = <<>>

\* main, Commands::Add: load_tasks, the next id (max + 1 on a u32), push,
\* save_tasks, then the message.
CommandsAdd(text) ==
    /\ Len(storage.tasks) < MaxTasks
    /\ \E build \in Builds :
         IF FindNextIdPanics(storage.tasks, build)
         THEN /\ result' = Result("add", "panic", 0)
              /\ tasks' = storage.tasks
              /\ save_called' = FALSE
              /\ stdout' = <<>>
              /\ UNCHANGED storage
         ELSE LET next_id == find_next_id(storage.tasks)
                  new_task == Task(next_id, text.title, text.description)
              IN /\ tasks' = Append(storage.tasks, new_task)
                 /\ Save(tasks')
                 /\ IF storage.writable
                    THEN /\ result' = Result("add", "Ok", next_id)
                         /\ stdout' = <<Line("Task added successfully", "",
                                             new_task)>>
                    ELSE /\ result' = Result("add", "Err", 0)
                         /\ stdout' = <<>>
    /\ UNCHANGED <<input, mpc, host, dpc, nv, na, markers, vvars, avars,
                   chans, pvars, cvars>>

\* main, Commands::List: load_tasks, then one line per task or the notice.
CommandsList ==
    /\ tasks' = storage.tasks
    /\ stdout' = Listing(storage.tasks)
    /\ result' = Result("list", "Ok", 0)
    /\ save_called' = FALSE
    /\ UNCHANGED <<storage, input, mpc, host, dpc, nv, na, markers, vvars,
                   avars, chans, pvars, cvars>>

\* main, Commands::Complete: println!("Marking task {} as completed"), Ok(()).
CommandsComplete(id) ==
    /\ tasks' = <<>>
    /\ stdout' = <<Line("Marking task as completed", "", Task(id, "", ""))>>
    /\ result' = Result("complete", "Ok", 0)
    /\ save_called' = FALSE
    /\ UNCHANGED <<storage, input, mpc, host, dpc, nv, na, markers, vvars,
                   avars, chans, pvars, cvars>>

\* main, Commands::Remove: println!("Removing task {}"), Ok(()).
CommandsRemove(id) ==
    /\ tasks' = <<>>
    /\ stdout' = <<Line("Removing task", "", Task(id, "", ""))>>
    /\ result' = Result("remove", "Ok", 0)
    /\ save_called' = FALSE
    /\ UNCHANGED <<storage, input, mpc, host, dpc, nv, na, markers, vvars,
                   avars, chans, pvars, cvars>>

NextTodoCli ==
    \/ \E text \in Texts : CommandsAdd(text)
    \/ CommandsList
    \/ \E id \in TaskIds : CommandsComplete(id)
    \/ \E id \in TaskIds : CommandsRemove(id)

SpecTodoCli == InitTodoCli /\ [][NextTodoCli]_vars

\* =============================================================== claims
\* A window of the frames the video thread has published, in order: the one
\* popped last, the look-ahead queue, the channel, the one being sent.
VideoInFlight ==
    (IF current_frame # 0 THEN <<[pts |-> current_pts]>> ELSE <<>>)
        \o frame_buffer \o vchan
        \o (IF vpc = "send" THEN <<vpend>> ELSE <<>>)

\* The chunks in the channel followed by the one being sent.
AudioInFlight ==
    achan \o (IF apc \in {"send", "fsend"} THEN <<apend>> ELSE <<>>)

NonDecreasing(items) ==
    \A i \in 1..(Len(items) - 1) : Leq(items[i].pts, items[i + 1].pts)

\* Frames received so far that are due at the clock's present time.
DueSeen == {f \in seen : Due(f, Time(samples_played))}

\* C1: after every presentation tick the current frame is the frame with
\* the greatest pts among the frames received so far whose pts is <= the
\* audio clock time of that tick.
GreatestDueIsCurrent ==
    IF DueSeen = {}
    THEN current_frame = 0
    ELSE /\ current_frame # 0
         /\ \A f \in DueSeen : Leq(f.pts, current_pts)
C1_CurrentIsGreatestDue == [][Tick => GreatestDueIsCurrent']_vars

\* C2: a decoded frame that is current has pts <= the audio clock time; no
\* frame whose pts is greater than the clock time is made current.
C2_CurrentNotAheadOfClock ==
    current_frame # 0 => Leq(current_pts, Time(samples_played))

\* A frame is displayed while the next one is held back as not yet due.
C2_Witness ==
    /\ current_frame # 0
    /\ frame_buffer # <<>>
    /\ ~Due(Head(frame_buffer), Time(samples_played))
    /\ current_pts.n > 0

\* C3: the pts of the successive current frames never decreases: a frame
\* arriving with a smaller pts than the displayed one is never shown.
C3_ShownInOrder ==
    [][current_frame # 0 => Leq(current_pts, current_pts')]_vars

\* C4: the pts values each decode thread publishes are non-decreasing.
C4_PublishedPtsNonDecreasing ==
    /\ NonDecreasing(VideoInFlight)
    /\ NonDecreasing(AudioInFlight)

\* C5: the video-frame channel never holds more than its capacity, and a
\* send on the full channel does not complete while the channel stays full
\* and its receiver lives.
C5_SendBlocksWhenFull ==
    /\ [](Len(vchan) <= FRAME_BUFFER_SIZE)
    /\ [][(vpc = "send" /\ Len(vchan) = FRAME_BUFFER_SIZE /\ frame_source'
            /\ Len(vchan') >= Len(vchan)) => vpc' = "send"]_vars

\* The video thread is blocked on the full channel.
C5_Witness ==
    /\ vpc = "send"
    /\ Len(vchan) = FRAME_BUFFER_SIZE
    /\ frame_source

\* What a silent sample is in each device format.
Silence(fmt) == IF fmt = "U16" THEN U16Max \div 2 ELSE 0

\* C6: every callback writes the whole device buffer: the queued samples
\* first, in order, then silence for the whole shortfall, in every format.
C6_CallbackFillsBuffer ==
    [][samples_played' # samples_played =>
        LET avail == sample_queue \o Flatten(achan)
            k == Min(Len(data'), Len(avail))
        IN /\ Len(data') \in CallbackLens
           /\ DOMAIN data' = 1..Len(data')
           /\ \A i \in 1..Len(data') :
                data'[i] = IF i <= k THEN Encode(sample_format, avail[i])
                           ELSE Silence(sample_format)]_vars

\* A callback found fewer samples than the buffer holds, in a biased format.
C6_Witness ==
    /\ sample_format = "U16"
    /\ Len(data) = 2 * audio_config.channels
    /\ data[1] # Silence("U16")
    /\ data[Len(data)] = Silence("U16")
    /\ Len(delivered) = audio_config.channels

\* C7: no sample is dropped, duplicated or reordered between the
\* audio-chunk queue and the device: what the device got from the queue is
\* the encoded prefix of what was received, and the rest is queued in order.
C7_SamplesInOrder ==
    LET n == Len(delivered)
    IN /\ n + Len(sample_queue) = Len(received)
       /\ \A i \in 1..n : delivered[i] = Encode(sample_format, received[i])
       /\ \A j \in 1..Len(sample_queue) : sample_queue[j] = received[n + j]

\* Samples of more than one packet reached the device and more are queued.
C7_Witness ==
    /\ Len(delivered) > audio_config.channels
    /\ sample_queue # <<>>

\* The capacity the source names for the sample buffer, in samples.
SampleCapacity == AUDIO_BUFFER_SIZE * audio_config.channels

\* C8: the buffer of decoded samples has a fixed capacity:
\* 0 <= filled <= capacity, between callbacks and inside a callback once the
\* chunks of the channel have been taken in.
C8_FilledWithinCapacity ==
    /\ [](0 <= Len(sample_queue) /\ Len(sample_queue) <= SampleCapacity)
    /\ [][samples_played' # samples_played =>
            Len(Intake(sample_queue, achan)) <= SampleCapacity]_vars

\* C9: writing n samples with f free slots stores exactly min(n, f).
C9_WriteStoresMin ==
    achan # <<>> =>
        LET n == Len(Head(achan).samples)
            free == IF Len(sample_queue) < SampleCapacity
                    THEN SampleCapacity - Len(sample_queue) ELSE 0
        IN Len(Extend(sample_queue, Head(achan).samples))
               = Len(sample_queue) + Min(n, free)

MarkerOnlyLast(chan) ==
    \A i \in 1..(Len(chan) - 1) : chan[i].kind = "pkt"

\* C10 as stated: having reached end of input and ended, the demuxer has put
\* the end marker on both packet channels exactly once each.
C10_MarkerOnBothChannels ==
    dpc = "done" => (markers.video = 1 /\ markers.audio = 1)

\* C10 amended: at end of input the demuxer sends the marker once per
\* channel; it is put on every channel whose decode thread still runs at
\* that send, never twice, nothing follows it, and the demuxer ends.
MarkersSent ==
    /\ markers.video <= 1 /\ markers.audio <= 1
    /\ MarkerOnlyLast(vpkts) /\ MarkerOnlyLast(apkts)
    /\ markers.video = 1 => dpc \in {"eof_a", "done"}
    /\ markers.audio = 1 => dpc = "done"
    /\ dpc \in {"eof_a", "done"} => (markers.video = 1 \/ VideoEnded)
    /\ dpc = "done" => (markers.audio = 1 \/ apc = "done")
C10_MarkerOncePerLiveChannel ==
    /\ []MarkersSent
    /\ [][(dpc = "eof_v" => dpc' \in {"eof_v", "eof_a"})
          /\ (dpc = "eof_a" => dpc' \in {"eof_a", "done"})
          /\ (dpc = "done" => dpc' = "done")]_vars

\* The demuxer ended after a packet of each stream and both markers.
C10_Witness ==
    /\ dpc = "done"
    /\ nv = 1 /\ na >= 1
    /\ markers.video = 1 /\ markers.audio = 1

\* C11: a packet send that fails because the decode worker is gone stops the
\* demuxer at once: the step puts nothing on either channel, and from then
\* on the demuxer reads no packet and sends no packet and no end marker.
DemuxerQuiet ==
    /\ nv' = nv /\ na' = na /\ markers' = markers
    /\ Len(vpkts') <= Len(vpkts) /\ Len(apkts') <= Len(apkts)
C11_StopsOnFailedSend ==
    /\ [](dpc = "stopped" => markers = [video |-> 0, audio |-> 0])
    /\ [][(dpc = "stopped" => (dpc' = "stopped" /\ DemuxerQuiet))
          /\ ((DemuxVideoPacket /\ VideoEnded)
               => (dpc' = "stopped" /\ DemuxerQuiet))
          /\ ((DemuxAudioPacket /\ apc = "done")
               => (dpc' = "stopped" /\ DemuxerQuiet))]_vars

\* The demuxer stopped on a failed send with the video worker still running
\* and packets left unread.
C11_Witness ==
    /\ dpc = "stopped"
    /\ apc = "done"
    /\ na < input.audio
    /\ ~VideoEnded

\* The video_data of the frames published and not yet shown, in order.
VideoDataInFlight ==
    [i \in 1..Len(frame_buffer \o vchan) |->
        (frame_buffer \o vchan)[i].video_data]
        \o (IF vpc = "send" THEN <<vpend.video_data>> ELSE <<>>)

\* C12: after the end marker the video worker publishes every frame still
\* inside the decoder, oldest first, before it exits: a worker that ended
\* with its receiver alive left no frame in the decoder, and frames are
\* published in the order of their packets.
C12_VideoFlushedBeforeExit ==
    /\ []((vpc = "done" /\ frame_source) => (v_is_eof /\ vdec = <<>>))
    /\ [](\A i \in 1..(Len(VideoDataInFlight) - 1) :
             VideoDataInFlight[i] < VideoDataInFlight[i + 1])
    /\ [][(v_is_eof /\ vdec' # vdec)
            => /\ vdec' = Tail(vdec)
               /\ \/ vpc' = "send" /\ vpend'.video_data = Head(vdec).n
                  \/ vpc' = "panicked"]_vars

\* The worker ended normally after the end marker, and the frame of the last
\* packet, which the decoder held back until the flush, is in the channel.
C12_Witness ==
    /\ vpc = "done" /\ frame_source
    /\ markers.video = 1
    /\ vdelay > 0
    /\ nv > 1
    /\ vchan # <<>>
    /\ vchan[Len(vchan)].video_data = nv

\* C13: every non-empty output the resampler produces in the drain at end of
\* stream is published as a chunk, the output of the call after which the
\* resampler reports nothing left included.
C13_DrainOutputPublished ==
    [][(apc = "flush" /\ Len(resampler') < Len(resampler))
        => /\ apc' = "fsend"
           /\ apend'.samples =
                SubSeq(resampler, 1, Len(resampler) - Len(resampler'))]_vars

VideoFramesInFlight ==
    frame_buffer \o vchan \o (IF vpc = "send" THEN <<vpend>> ELSE <<>>)

\* C15: a frame whose conversion fails is skipped: no VideoFrame is
\* published for it and the worker does not terminate.
C15_UnconvertedFrameSkipped ==
    /\ vpc # "panicked"
    /\ \A i \in 1..Len(VideoFramesInFlight) : VideoFramesInFlight[i].converted

\* C16: a failed resample of one decoded frame publishes no chunk and does
\* not end the worker, which stays in its receive_frame loop with the
\* resampler as it was; every other frame is resampled normally: its
\* samples, behind those the resampler held, go to the chunk being sent or
\* stay inside the resampler, none lost.
C16_ResampleErrorSkipsFrame ==
    [][AudioDecodeFrame =>
        IF apc' = "send"
        THEN /\ apend'.samples \o resampler'
                  = resampler \o FrameSamples(Head(adec).n)
             /\ achan' = achan
        ELSE /\ apc' = "drain"
             /\ achan' = achan /\ apend' = apend /\ resampler' = resampler
             /\ a_is_eof' = a_is_eof]_vars

\* The frame of the first packet was dropped, the samples of the second
\* packet reached the device callback, and the worker runs on.
C16_Witness ==
    /\ received = FrameSamples(2)
    /\ apc \notin {"done", "flush", "fsend"}
    /\ ~a_is_eof

\* C17: the presentation tick and the audio callback never block.  Each can
\* run to completion in every state where it is called, whatever its
\* channel holds and whether or not the producer still lives, and the work
\* of one call is bounded: the tick takes at most FRAME_BUFFER_SIZE frames
\* from the channel and pops at most that many, the callback takes the
\* chunks the channel holds, at most AUDIO_CHANNEL_CAP.
C17_TickAndCallbackNeverBlock ==
    /\ frame_source =>
          /\ ENABLED Tick
          /\ LET k == RefillCount(frame_buffer, vchan)
                 buf == frame_buffer \o SubSeq(vchan, 1, k)
             IN /\ k <= FRAME_BUFFER_SIZE
                /\ PopCount(buf, Time(samples_played)) <= FRAME_BUFFER_SIZE
    /\ (audio_stream /\ samples_played < MaxClock) =>
          /\ ENABLED AudioCallback
          /\ Len(achan) <= AUDIO_CHANNEL_CAP

\* Both producers have ended and both channels are empty; the tick and the
\* callback have run and can still be called.
C17_Witness ==
    /\ frame_source /\ audio_stream
    /\ VideoEnded /\ apc = "done"
    /\ vchan = <<>> /\ achan = <<>>
    /\ current_frame # 0
    /\ data # <<>>
    /\ samples_played < MaxClock

\* C18: a decode worker whose send fails because the receiver is dropped
\* exits at that send.  The failed send puts nothing on the channel and ends
\* the thread, and an ended thread sends nothing, takes no packet, decodes
\* nothing and flushes nothing.
C18_WorkerExitsAtFailedSend ==
    [][/\ (VideoSend /\ ~frame_source) => (vpc' = "done" /\ vchan' = vchan)
       /\ (AudioSend /\ ~audio_stream) => (apc' = "done" /\ achan' = achan)
       /\ (AudioFlushSend /\ ~audio_stream)
            => (apc' = "done" /\ achan' = achan)
       /\ vpc = "done" => /\ vpc' = "done"
                          /\ vdec' = vdec
                          /\ Len(vchan') <= Len(vchan)
                          /\ Len(vpkts') >= Len(vpkts)
       /\ apc = "done" => /\ apc' = "done"
                          /\ adec' = adec
                          /\ resampler' = resampler
                          /\ Len(achan') <= Len(achan)
                          /\ Len(apkts') >= Len(apkts)]_vars

\* The audio worker has ended at a failed send before the end of the
\* stream, leaving a packet in its channel and samples in the resampler.
C18_Witness ==
    /\ apc = "done" /\ ~audio_stream /\ ~a_is_eof
    /\ apkts # <<>> /\ resampler # <<>>

\* C19: on an underrun the shortfall is written as silence, the underrun is
\* logged with the number of missing samples, and the stream keeps playing,
\* in every device sample format.
C19_UnderrunSilentAndLogged ==
    [][samples_played' # samples_played =>
        LET avail == sample_queue \o Flatten(achan)
            missing == Len(data') - Min(Len(data'), Len(avail))
        IN /\ \A i \in (Len(data') - missing + 1)..Len(data') :
                data'[i] = Silence(sample_format)
           /\ underflow_logged' = missing
           /\ audio_stream']_vars

\* A startup failure has happened: can_create_surfaces panicked, or a
\* thread panicked opening the file or looking its stream up.
StartupFailed == "panicked" \in {mpc, dpc, vpc, apc}

\* C20: after a startup failure no demux or decode thread is spawned and
\* the frame source is not installed.
C20_NothingStartsAfterFailure ==
    [][StartupFailed =>
        /\ dpc = "unspawned" => dpc' = "unspawned"
        /\ vpc = "unspawned" => vpc' = "unspawned"
        /\ apc = "unspawned" => apc' = "unspawned"
        /\ ~frame_source => ~frame_source']_vars

\* The frames in transit from the video decode thread to the presenter: the
\* look-ahead queue, then the channel.
VideoInTransit == frame_buffer \o vchan

\* C21: video frames reach the presenter in the order they were published.
\* The frames in transit form one queue: a publication appends the sent
\* frame at its end, a tick pops frames from its front only and makes the
\* last one popped current, and nothing else changes it, so no frame is
\* lost, duplicated or reordered on the way.
C21_FramesPoppedInPublishedOrder ==
    [][LET q == VideoInTransit
           r == VideoInTransit'
       IN \/ r = q /\ current_frame' = current_frame
          \/ VideoSend /\ r = Append(q, vpend) /\ current_frame' = current_frame
          \/ /\ Tick
             /\ \E m \in 1..Len(q) :
                  /\ r = SubSeq(q, m + 1, Len(q))
                  /\ current_frame' = q[m].video_data]_vars

\* The presenter has popped the first frame and then the second, and the
\* third waits in its look-ahead queue.
C21_Witness ==
    /\ current_frame = 2
    /\ {f.video_data : f \in seen} = {1, 2, 3}
    /\ frame_buffer # <<>>

\* C22: the audio clock is monotonic and written by the audio callback
\* only.  It reads 0 until the first callback, every callback adds the
\* device buffer length divided by the channel count, no other step changes
\* it, and time() never decreases.
C22_ClockWrittenByCallbackOnly ==
    /\ [](data = <<>> => samples_played = 0)
    /\ [][/\ samples_played' # samples_played => AudioCallback
          /\ AudioCallback =>
                samples_played' =
                    samples_played + (Len(data') \div audio_config.channels)
          /\ Leq(Time(samples_played), Time(samples_played'))]_vars

\* Callbacks have advanced the clock to three frames, the last of them with
\* the short device buffer.
C22_Witness ==
    /\ samples_played = 3
    /\ Len(data) = audio_config.channels

\* C23: until a decoded frame has been made current the tick returns the
\* black buffer, and the buffer it returns always holds width * height * 4
\* bytes.  Only a tick that pops a frame from the look-ahead queue replaces
\* the buffer, by that frame's data.
C23_BlackUntilFirstFrame ==
    /\ [](Len(CurrentFrameBytes) = video_size.width * video_size.height * 4)
    /\ [](seen = {} =>
            /\ CurrentFrameBytes = BlackFrame
            /\ \A i \in DOMAIN CurrentFrameBytes : CurrentFrameBytes[i] = 0)
    /\ [][current_frame' # current_frame =>
            /\ Tick
            /\ \E m \in 1..Len(VideoInTransit) :
                 current_frame' = VideoInTransit[m].video_data
            /\ CurrentFrameBytes' # BlackFrame]_vars

\* Ticks have returned the black buffer while a decoded frame waited in the
\* look-ahead queue, and a later tick has made a frame current.
C23_Witness ==
    /\ frame_source
    /\ current_frame = 2
    /\ CurrentFrameBytes # BlackFrame
    /\ samples_played > 0

\* C26: complete and remove with an id no task has return an error, do not
\* call the storage's save and leave the task list as it was.
C26_UnknownIdLeavesListAlone ==
    [][\A id \in TaskIds :
         ((complete(id) \/ remove(id)) /\ \A i \in 1..Len(tasks) : tasks[i].id # id)
            => /\ result'.ret = "Err"
               /\ ~save_called'
               /\ tasks' = tasks
               /\ storage' = storage]_vars

\* remove has failed on a list that holds tasks, without a save.
C26_Witness ==
    /\ result.op = "remove" /\ result.ret = "Err"
    /\ ~save_called
    /\ Len(tasks) > 1
    /\ storage.writable

\* C27: find_next_id returns 1 for the empty list and the largest id plus
\* one for any other, whatever its length and the gaps in its ids.
C27_NextIdIsLargestPlusOne ==
    /\ \A build \in Builds : ~FindNextIdPanics(tasks, build)
    /\ find_next_id(tasks) =
         IF tasks = <<>> THEN 1
         ELSE 1 + CHOOSE x \in {tasks[i].id : i \in 1..Len(tasks)} :
                    \A j \in 1..Len(tasks) : tasks[j].id <= x

\* C28: add appends one task with the next id, the given title and
\* description and completed = false, leaves the tasks before it as they
\* were, calls the storage's save and, the save done, returns the new id.
C28_AddAppendsNextId ==
    [][\A text \in Texts :
         add(text) =>
            LET next_id == find_next_id(tasks)
            IN /\ Len(tasks') = Len(tasks) + 1
               /\ \A i \in 1..Len(tasks) : tasks'[i] = tasks[i]
               /\ tasks'[Len(tasks')] =
                     [id |-> next_id, title |-> text.title,
                      description |-> text.description, completed |-> FALSE]
               /\ save_called'
               /\ storage.writable =>
                     (result'.ret = "Ok" /\ result'.value = next_id)]_vars

\* C29: remove with an id the list holds removes the task with that id (the
\* first such task), keeps the others unchanged in their order, and calls
\* the storage's save.
C29_RemoveKeepsOthersInOrder ==
    [][\A id \in TaskIds :
         (remove(id) /\ \E i \in 1..Len(tasks) : tasks[i].id = id) =>
            /\ \E pos \in 1..Len(tasks) :
                 /\ tasks[pos].id = id
                 /\ \A j \in 1..(pos - 1) : tasks[j].id # id
                 /\ Len(tasks') = Len(tasks) - 1
                 /\ \A j \in 1..(pos - 1) : tasks'[j] = tasks[j]
                 /\ \A j \in pos..Len(tasks') : tasks'[j] = tasks[j + 1]
            /\ save_called'
            /\ storage.writable => (result'.ret = "Ok" /\ storage'.tasks = tasks')]_vars

\* A remove has succeeded and was saved; the list, once of three tasks, has
\* lost the one in the middle and keeps the other two in their order.
C29_Witness ==
    /\ result.op = "remove" /\ result.ret = "Ok"
    /\ save_called
    /\ Len(tasks) = 2
    /\ tasks[1].id = 1 /\ tasks[2].id = 3
    /\ storage.tasks = tasks

\* C30: complete with an id the list holds sets completed on the task with
\* that id (the first such task), changes no other field and no other task,
\* calls the storage's save, and leaves a list whose task was already
\* completed as it was.
C30_CompleteSetsOnlyTheFlag ==
    [][\A id \in TaskIds :
         (complete(id) /\ \E i \in 1..Len(tasks) : tasks[i].id = id) =>
            /\ \E pos \in 1..Len(tasks) :
                 /\ tasks[pos].id = id
                 /\ \A j \in 1..(pos - 1) : tasks[j].id # id
                 /\ Len(tasks') = Len(tasks)
                 /\ tasks'[pos] = [id |-> tasks[pos].id,
                                   title |-> tasks[pos].title,
                                   description |-> tasks[pos].description,
                                   completed |-> TRUE]
                 /\ \A j \in 1..Len(tasks) : j # pos => tasks'[j] = tasks[j]
                 /\ tasks[pos].completed => tasks' = tasks
            /\ save_called'
            /\ storage.writable => (result'.ret = "Ok" /\ storage'.tasks = tasks')]_vars

\* The second of three tasks has been completed and saved; its neighbours
\* are not completed.
C30_Witness ==
    /\ result.op = "complete" /\ result.ret = "Ok"
    /\ save_called
    /\ Len(tasks) = 3
    /\ ~tasks[1].completed /\ tasks[2].completed /\ ~tasks[3].completed
    /\ storage.tasks = tasks

\* What a later `list` prints for the task with this id, as a set of lines.
ListedWith(ts, id) ==
    {Listing(ts)[i] : i \in {j \in 1..Len(ts) : ts[j].id = id}}

\* C24: in the binary, `complete <id>` on a stored task marks it completed
\* in the stored list, so that a later `list` shows it with the completed
\* marker, and `remove <id>` removes it, so that a later `list` does not
\* show it.
C24_CliCompleteAndRemoveStored ==
    [][\A id \in TaskIds :
         (\E i \in 1..Len(storage.tasks) : storage.tasks[i].id = id) =>
            /\ CommandsComplete(id) =>
                  /\ ListedWith(storage'.tasks, id) # {}
                  /\ \A line \in ListedWith(storage'.tasks, id) :
                       line.status = "[x]"
            /\ CommandsRemove(id) => ListedWith(storage'.tasks, id) = {}]_vars

\* C25: in the binary, `complete <id>` and `remove <id>` with an id that is
\* not in the stored list end with a failure.
C25_CliUnknownIdFails ==
    [][\A id \in TaskIds :
         ((CommandsComplete(id) \/ CommandsRemove(id))
            /\ \A i \in 1..Len(storage.tasks) : storage.tasks[i].id # id)
            => result'.ret = "Err"]_vars

\* The look-ahead queue as the selection loop of a tick finds it: the queue
\* after the refill from the channel.
RefilledQueue ==
    frame_buffer \o SubSeq(vchan, 1, RefillCount(frame_buffer, vchan))

\* C31: the displayed frame changes only inside a presentation tick.  A
\* tick whose selection loop finds the look-ahead queue empty, or its front
\* frame's pts greater than the clock time, leaves the current frame as it
\* was, and once a decoded frame has been displayed the presenter never
\* returns to the placeholder.
C31_FrameChangesOnlyInTick ==
    [][/\ (current_frame' # current_frame \/ current_pts' # current_pts)
            => Tick
       /\ (Tick /\ (\/ RefilledQueue = <<>>
                    \/ ~Due(Head(RefilledQueue), Time(samples_played))))
            => (current_frame' = current_frame /\ current_pts' = current_pts)
       /\ current_frame # 0 => current_frame' # 0]_vars

\* The second frame is displayed, the clock has moved on and the third frame
\* waits in the look-ahead queue as not yet due: a tick now changes nothing.
C31_Witness ==
    /\ frame_source
    /\ current_frame = 2
    /\ samples_played > 0
    /\ frame_buffer # <<>> /\ frame_buffer[1].video_data = 3
    /\ ~Due(Head(frame_buffer), Time(samples_played))
    /\ ENABLED Tick

\* C32: the look-ahead queue never holds more than FRAME_BUFFER_SIZE frames.
\* A tick takes frames from the front of the video-frame channel only while
\* the queue is below that depth and stops at the first empty receive: it
\* takes them until the queue is full or the channel is empty, and nothing
\* but a tick takes a frame from the channel or puts one in the queue.
C32_LookAheadWithinDepth ==
    /\ [](Len(frame_buffer) <= FRAME_BUFFER_SIZE)
    /\ [][LET taken == Len(vchan) - Len(vchan')
          IN /\ Tick =>
                  /\ taken >= 0
                  /\ Len(frame_buffer) + taken <= FRAME_BUFFER_SIZE
                  /\ \/ taken = Len(vchan)
                     \/ Len(frame_buffer) + taken = FRAME_BUFFER_SIZE
                  /\ vchan' = SubSeq(vchan, taken + 1, Len(vchan))
                  /\ \E m \in 0..(Len(frame_buffer) + taken) :
                       frame_buffer' =
                           SubSeq(frame_buffer \o SubSeq(vchan, 1, taken),
                                  m + 1, Len(frame_buffer) + taken)
             /\ ~Tick => (taken <= 0 /\ frame_buffer' = frame_buffer)]_vars

\* A frame is displayed, the look-ahead queue is full with frames that are
\* not yet due and the channel holds another one: a tick takes nothing.
C32_Witness ==
    /\ frame_source
    /\ current_frame # 0
    /\ Len(frame_buffer) = FRAME_BUFFER_SIZE
    /\ ~Due(Head(frame_buffer), Time(samples_played))
    /\ vchan # <<>>

\* C33: after every presentation tick the look-ahead queue is empty or its
\* front frame has pts strictly greater than the audio clock time read at
\* that tick.  Of the frames popped during the tick only the last one is
\* returned: it is the current frame after the tick, and the ones popped
\* before it are neither current nor kept in the queue.
C33_TickLeavesNoDueFrame ==
    [][Tick =>
        LET audio_time == Time(samples_played)
            popped == Len(RefilledQueue) - Len(frame_buffer')
        IN /\ \/ frame_buffer' = <<>>
              \/ ~Leq(Head(frame_buffer').pts, audio_time)
           /\ popped >= 0
           /\ frame_buffer' =
                  SubSeq(RefilledQueue, popped + 1, Len(RefilledQueue))
           /\ popped > 0 =>
                 /\ current_frame' = RefilledQueue[popped].video_data
                 /\ current_pts' = RefilledQueue[popped].pts
                 /\ \A i \in 1..(popped - 1) :
                      /\ Leq(RefilledQueue[i].pts, audio_time)
                      /\ current_frame' # RefilledQueue[i].video_data]_vars

\* A tick has displayed the first frame; the clock has since passed the pts
\* of the second and the third, which the next tick finds in its queue: it
\* pops both, discards the second and returns the third.
C33_Witness ==
    /\ frame_source
    /\ current_frame = 1
    /\ Len(RefilledQueue) = 2
    /\ RefilledQueue[2].video_data = 3
    /\ ~Leq(RefilledQueue[1].pts, current_pts)
    /\ Due(RefilledQueue[2], Time(samples_played))
    /\ PopCount(RefilledQueue, Time(samples_played)) = 2

\* A worker waits in recv on a packet channel that is empty and whose sender
\* the demux thread has dropped.
VideoDisconnected == vpc = "recv" /\ vpkts = <<>> /\ DemuxEnded
AudioDisconnected == apc = "recv" /\ apkts = <<>> /\ DemuxEnded

\* C34: a decode worker treats the disconnection of its packet channel as
\* it treats the end marker.  Its recv returns at once, the step it takes
\* sets is_eof and goes on to the decoder's drain exactly as the marker's
\* step does, and a worker that ended without having been sent a marker,
\* its consumer alive, has left nothing in its decoder.
C34_DisconnectionEndsStream ==
    /\ [](VideoDisconnected => ENABLED VideoRecvEof)
    /\ [](AudioDisconnected => ENABLED AudioRecvEof)
    /\ []((vpc = "done" /\ frame_source /\ markers.video = 0)
            => (v_is_eof /\ vdec = <<>>))
    /\ []((apc = "done" /\ audio_stream /\ markers.audio = 0)
            => (a_is_eof /\ adec = <<>>))
    /\ [][/\ (VideoDisconnected /\ vpc' # vpc)
              => /\ VideoRecvEof
                 /\ v_is_eof' /\ vpc' = "drain" /\ vdec' = vdec
          /\ (AudioDisconnected /\ apc' # apc)
              => /\ AudioRecvEof
                 /\ a_is_eof' /\ apc' = "drain" /\ adec' = adec
          /\ (vpc = "recv" /\ vpkts # <<>> /\ Head(vpkts).kind = "eof"
                /\ vpc' # vpc)
              => (v_is_eof' /\ vpc' = "drain" /\ vdec' = vdec)
          /\ (apc = "recv" /\ apkts # <<>> /\ Head(apkts).kind = "eof"
                /\ apc' # apc)
              => (a_is_eof' /\ apc' = "drain" /\ adec' = adec)]_vars

\* The demuxer stopped at a failed send to the video worker and sent no
\* marker.  The audio worker, its consumer alive, found its channel
\* disconnected, drained the resampler, published what it gave and ended.
C34_Witness ==
    /\ dpc = "stopped"
    /\ markers = [video |-> 0, audio |-> 0]
    /\ audio_stream
    /\ apc = "done" /\ a_is_eof
    /\ na = 2
    /\ achan # <<>> /\ achan[Len(achan)].pts = FlushPts

\* C35: the two streams are coupled through the demuxer's shutdown.  A send
\* that fails because one stream's worker is gone ends the demuxer without a
\* marker; from then on no packet is read and nothing is put on either
\* channel, so the other stream's worker gets only what its channel held,
\* then finds the channel disconnected and takes this for the end of its
\* stream, whether or not its own consumer is still running.
C35_StreamsEndTogether ==
    /\ []((dpc = "stopped" /\ apc = "done" /\ audio_stream)
            => (a_is_eof /\ markers.audio = 0))
    /\ []((dpc = "stopped" /\ vpc = "done" /\ frame_source)
            => (v_is_eof /\ markers.video = 0))
    /\ [][/\ (dpc = "loop" /\ nv' # nv /\ VideoEnded) => FALSE
          /\ (dpc = "loop" /\ na' # na /\ apc = "done") => FALSE
          /\ (dpc = "loop" /\ dpc' = "stopped")
               => /\ \/ VideoEnded /\ nv < input.video
                     \/ apc = "done" /\ na < input.audio
                  /\ UNCHANGED <<nv, na, markers, vpkts, apkts>>
          /\ dpc = "stopped"
               => /\ dpc' = "stopped"
                  /\ UNCHANGED <<nv, na, markers>>
                  /\ vpkts' = vpkts \/ (vpkts # <<>> /\ vpkts' = Tail(vpkts))
                  /\ apkts' = apkts \/ (apkts # <<>> /\ apkts' = Tail(apkts))
                  /\ (apc = "recv" /\ apkts = <<>> /\ apc' # apc)
                       => (a_is_eof' /\ apc' = "drain")
                  /\ (vpc = "recv" /\ vpkts = <<>> /\ vpc' # vpc)
                       => (v_is_eof' /\ vpc' = "drain")]_vars

\* The presenter is gone and the video worker ended at its failed send; the
\* demuxer stopped at the second video packet with an audio packet still
\* unread; the audio worker found its channel disconnected and ended, while
\* the audio callback is still running.
C35_Witness ==
    /\ ~frame_source /\ vpc = "done" /\ ~v_is_eof
    /\ dpc = "stopped"
    /\ nv < input.video /\ na < input.audio
    /\ audio_stream
    /\ apc = "done" /\ a_is_eof
    /\ samples_played < MaxClock

\* C36: the audio clock counts silence as well as decoded audio.  The clock
\* starts at 0 with nothing delivered; a callback, whose buffer length is a
\* multiple of the channel count, adds to samples_played * channels the
\* decoded samples it delivers plus the silence samples it inserts for the
\* ones missing, and no other step changes either count.  So the clock
\* never lags the delivered audio, and it advances in a callback that has
\* no decoded audio at all.
C36_ClockCountsSilence ==
    /\ [](data = <<>> => (samples_played = 0 /\ delivered = <<>>))
    /\ [](Len(delivered) <= samples_played * audio_config.channels)
    /\ [][LET avail == sample_queue \o Flatten(achan)
              missing == Len(data') - Min(Len(data'), Len(avail))
              played == (samples_played' - samples_played)
                            * audio_config.channels
              decoded == Len(delivered') - Len(delivered)
              callback == \/ samples_played' # samples_played
                          \/ data' # data
                          \/ Len(achan') < Len(achan)
          IN IF callback
             THEN /\ Len(data') % audio_config.channels = 0
                  /\ decoded = Len(data') - missing
                  /\ played = decoded + missing
                  /\ samples_played' > samples_played
             ELSE played = 0 /\ decoded = 0]_vars

\* The clock has advanced through callbacks that delivered decoded samples
\* and through an underrun: the last callback wrote decoded samples followed
\* by silence, and the clock counts more than was delivered.
C36_Witness ==
    /\ audio_stream
    /\ delivered # <<>>
    /\ Len(delivered) < samples_played * audio_config.channels
    /\ underflow_logged > 0
    /\ underflow_logged < Len(data)
    /\ data[1] # 0

\* Frames the video decode worker has published, or is publishing, that the
\* presenter has not popped yet.
DecodeAhead ==
    Len(frame_buffer) + Len(vchan) + (IF vpc = "send" THEN 1 ELSE 0)

\* C37: video decode-ahead is bounded.  The frames published or being
\* published and not yet popped number at most the capacity of the
\* video-frame channel (FRAME_BUFFER_SIZE) plus the look-ahead depth
\* (FRAME_BUFFER_SIZE) plus one, the channel and the queue each within its
\* own limit, and each packet channel holds at most its capacity.
C37_DecodeAheadBounded ==
    /\ DecodeAhead <= FRAME_BUFFER_SIZE + FRAME_BUFFER_SIZE + 1
    /\ Len(vchan) <= FRAME_BUFFER_SIZE
    /\ Len(frame_buffer) <= FRAME_BUFFER_SIZE
    /\ Len(vpkts) <= PACKET_CHANNEL_CAP
    /\ Len(apkts) <= PACKET_CHANNEL_CAP

\* The bound is reached: behind the displayed frame the look-ahead queue and
\* the channel are full, the worker waits to send one more frame, and the
\* demuxer has filled the video packet channel behind it.
C37_Witness ==
    /\ frame_source
    /\ current_frame # 0
    /\ DecodeAhead = FRAME_BUFFER_SIZE + FRAME_BUFFER_SIZE + 1
    /\ Len(vpkts) = PACKET_CHANNEL_CAP

\* The greatest frame number among the frames the presenter has received, 0
\* if it has received none: frames are published in the order of their
\* packets, so this is the last frame received.
LastSeen ==
    IF seen = {} THEN 0
    ELSE CHOOSE n \in {f.video_data : f \in seen} :
           \A f \in seen : f.video_data <= n

\* The demuxer has sent both markers and ended, both workers have ended, the
\* video-frame channel and the look-ahead queue are empty and the last frame
\* published is on display.
PipelineDrained ==
    /\ dpc = "done"
    /\ vpc = "done" /\ apc = "done"
    /\ vpkts = <<>> /\ apkts = <<>>
    /\ vchan = <<>> /\ frame_buffer = <<>>
    /\ current_frame = LastSeen

\* C38: the pipeline drains and stops at end of input.  Under fair
\* scheduling, for as long as the presenter keeps ticking and the audio
\* callback keeps firing (the App is not dropped), the demuxer reaches the
\* end of its input and ends, both decode workers end, none of them left
\* waiting on a bounded channel, and the last frame the video worker
\* published becomes the current frame.
C38_PipelineDrains == <>(~frame_source \/ PipelineDrained)

\* The whole file was played: both streams' packets were read, both workers
\* ended after their markers, and the frame of the last video packet is on
\* display with the App still alive.
C38_Witness ==
    /\ frame_source /\ audio_stream
    /\ PipelineDrained
    /\ nv = input.video /\ na = input.audio
    /\ current_frame = nv
    /\ Cardinality(seen) = 2
    /\ received # <<>>

\* The demux thread and both decode workers have ended.
ThreadsEnded == DemuxEnded /\ VideoEnded /\ apc = "done"

\* C39: shutdown cascades upstream.  Once the presenter's receiver of the
\* video-frame channel is dropped, then under fair scheduling, the audio
\* callback draining the audio-chunk channel for as long as the stream
\* lives, the video decode worker, the demuxer and the audio decode worker
\* all end: none stays blocked on a send or a receive.
C39_ShutdownCascades == ~frame_source ~> ThreadsEnded

\* The receiver was dropped while the video worker waited to send: the
\* worker ended at its failed send, the demuxer at its failed send of the
\* next video packet, and the audio worker, its callback still running, at
\* the disconnection of its packet channel.
C39_Witness ==
    /\ ~frame_source /\ audio_stream
    /\ vpc = "done" /\ ~v_is_eof
    /\ dpc = "stopped"
    /\ apc = "done" /\ a_is_eof
    /\ markers = [video |-> 0, audio |-> 0]
    /\ nv < input.video /\ na < input.audio

\* The ids of a list are pairwise distinct.
Distinct(ts) ==
    \A i, j \in 1..Len(ts) : i # j => ts[i].id # ts[j].id

\* C40: task ids stay unique.  From a list whose ids are pairwise distinct,
\* after any sequence of add, complete and remove calls the ids of the list
\* are pairwise distinct, and the id add returns is strictly greater than
\* every id the list held at the time of the call.
C40_IdsStayUnique ==
    /\ [](Distinct(tasks))
    /\ [][(Len(tasks') = Len(tasks) + 1 /\ result'.ret = "Ok")
            => \A i \in 1..Len(tasks) : tasks[i].id < result'.value]_vars
====
